---- MODULE Spec2Model ----
(***************************************************************************)
(* The x86-64 address-space manager of the kernel (VSpace): the 4-level    *)
(* page-table tree, the recursive multi-granularity mapper map_generic,    *)
(* its identity-map wrappers, the legacy map entry point and the           *)
(* resolution walk resolve_addr.                                           *)
(*                                                                         *)
(* Representation of 64-bit quantities.  The model checker's integers are  *)
(* 32 bits wide, so a 64-bit address is kept as its four bit fields        *)
(*     hi  = bits 48..63      gb = bits 30..47 (the 1 GiB slot number)     *)
(*     pg  = bits 12..29 (the 4 KiB page inside the 1 GiB slot)            *)
(*     off = bits  0..11 (the byte inside the page)                        *)
(* and a byte count (usize) as  pg = whole 4 KiB pages, off = bytes left.  *)
(* Arithmetic on them carries between the fields exactly as the 64-bit     *)
(* addition does.                                                          *)
(***************************************************************************)
EXTENDS Integers, Sequences, FiniteSets, TLC

VARIABLES pml4, mem, nalloc, last, pre, ncalls, gs_base, kernel_gs_base, installed

vars == <<pml4, mem, nalloc, last, pre, ncalls, gs_base, kernel_gs_base, installed>>

(***************************************************************************)
(* Hardware constants                                                      *)
(***************************************************************************)
\* bytes in a base page
BASE_PAGE_SIZE == 4096
\* entries in a table of any level
PAGE_SIZE_ENTRIES == 512
\* 2 MiB, in base pages
LARGE_PAGE_SIZE == PAGE_SIZE_ENTRIES
\* 1 GiB, in base pages
HUGE_PAGE_SIZE == PAGE_SIZE_ENTRIES * PAGE_SIZE_ENTRIES
\* number of 1 GiB slots below 2^48 (512 level-4 slots of 512 level-3 slots)
GB_SLOTS == PAGE_SIZE_ENTRIES * PAGE_SIZE_ENTRIES
\* values of the bit field 48..63
HI_RANGE == 2^16

\* the property tests draw base below 0xffee_0000 and size below 0xff_0000,
\* both in base pages here
TEST_BASE_PAGES == 1048288
TEST_SIZE_PAGES == 4080

(***************************************************************************)
(* Bounds of the model                                                     *)
(***************************************************************************)
\* map operations in one behaviour
MaxCalls == 2
\* kernel control blocks that may be installed
MaxKcbs == 3
\* base frames the physical-page provider can hand out
MaxFrames == 12
\* frames a provider that others have drawn from has left
FramesLeft == 3
\* 1 GiB slot of physical memory the provider's frames come from
FramePoolGiB == 8

(***************************************************************************)
(* Addresses and sizes                                                     *)
(***************************************************************************)
Addr(hi, gb, pg, off) == [hi |-> hi, gb |-> gb, pg |-> pg, off |-> off]

Size(pg, off) == [pg |-> pg, off |-> off]

\* a + n * BASE_PAGE_SIZE  (VAddr/PAddr + usize, n a whole number of pages)
AddPages(a, n) ==
    LET pgsum == a.pg + n
        gbsum == a.gb + (pgsum \div HUGE_PAGE_SIZE)
        hisum == a.hi + (gbsum \div GB_SLOTS)
    IN  [hi  |-> hisum % HI_RANGE,
         gb  |-> gbsum % GB_SLOTS,
         pg  |-> pgsum % HUGE_PAGE_SIZE,
         off |-> a.off]

\* a + b bytes  (byte offset b < BASE_PAGE_SIZE added inside the page)
AddBytes(a, b) ==
    LET sum == a.off + b
    IN  [AddPages(a, sum \div BASE_PAGE_SIZE) EXCEPT !.off = sum % BASE_PAGE_SIZE]

\* a + b  (PAddr + PAddr)
AddAddr(a, b) ==
    LET offsum == a.off + b.off
        pgsum  == a.pg + b.pg + (offsum \div BASE_PAGE_SIZE)
        gbsum  == a.gb + b.gb + (pgsum \div HUGE_PAGE_SIZE)
        hisum  == a.hi + b.hi + (gbsum \div GB_SLOTS)
    IN  [hi  |-> hisum % HI_RANGE,
         gb  |-> gbsum % GB_SLOTS,
         pg  |-> pgsum % HUGE_PAGE_SIZE,
         off |-> offsum % BASE_PAGE_SIZE]

\* a > b  (unsigned 64-bit comparison)
AddrGT(a, b) ==
    \/ a.hi > b.hi
    \/ a.hi = b.hi /\ a.gb > b.gb
    \/ a.hi = b.hi /\ a.gb = b.gb /\ a.pg > b.pg
    \/ a.hi = b.hi /\ a.gb = b.gb /\ a.pg = b.pg /\ a.off > b.off

\* (a - b).as_usize() for a > b lying in the same bit field 48..63
SubAddr(a, b) ==
    LET bytes == a.off - b.off
        pages == (a.gb - b.gb) * HUGE_PAGE_SIZE + (a.pg - b.pg)
    IN  IF bytes >= 0 THEN Size(pages, bytes)
        ELSE Size(pages - 1, bytes + BASE_PAGE_SIZE)

\* x86::bits64::paging index extraction: bits 39..47, 30..38, 21..29, 12..20
pml4_index(a) == a.gb \div PAGE_SIZE_ENTRIES

pdpt_index(a) == a.gb % PAGE_SIZE_ENTRIES

pd_index(a) == a.pg \div PAGE_SIZE_ENTRIES

pt_index(a) == a.pg % PAGE_SIZE_ENTRIES

\* addr & (BASE_PAGE_SIZE - 1), in bytes
base_page_offset(a) == Size(0, a.off)

\* addr & (LARGE_PAGE_SIZE - 1)
large_page_offset(a) == Size(a.pg % LARGE_PAGE_SIZE, a.off)

\* addr & (HUGE_PAGE_SIZE - 1)
huge_page_offset(a) == Size(a.pg, a.off)

\* entry.address() + page_offset
AddSize(a, sz) == AddBytes(AddPages(a, sz.pg), sz.off)

(***************************************************************************)
(* Page-table entries and tables                                           *)
(***************************************************************************)
MapActions ==
    {"None", "ReadUser", "ReadKernel", "ReadWriteUser", "ReadWriteKernel",
     "ReadExecuteUser", "ReadExecuteKernel", "ReadWriteExecuteUser",
     "ReadWriteExecuteKernel"}

\* MapAction::to_pt_rights / to_pd_rights / to_pdpt_rights
to_rights(rights) ==
    CASE rights = "None"                   -> {}
      [] rights = "ReadUser"               -> {"XD", "US"}
      [] rights = "ReadKernel"             -> {"XD"}
      [] rights = "ReadWriteUser"          -> {"RW", "XD", "US"}
      [] rights = "ReadWriteKernel"        -> {"RW", "XD"}
      [] rights = "ReadExecuteUser"        -> {"US"}
      [] rights = "ReadExecuteKernel"      -> {}
      [] rights = "ReadWriteExecuteUser"   -> {"RW", "US"}
      [] rights = "ReadWriteExecuteKernel" -> {"RW"}

to_pt_rights(rights) == to_rights(rights)

to_pd_rights(rights) == to_rights(rights)

to_pdpt_rights(rights) == to_rights(rights)

\* XEntry::new(addr, flags)
Entry(addr, flags) == [addr |-> addr, flags |-> flags]

\* fault variant of EmptyEntry: the entry is created present
PresentEntry == Entry(Addr(0, 0, 0, 0), {"P"})

\* PML4Entry::new(PAddr::from(0x0), PML4Flags::empty())
EmptyEntry == Entry(Addr(0, 0, 0, 0), {})

is_present(e) == "P" \in e.flags

is_page(e) == "PS" \in e.flags

\* a zeroed frame seen as a table
ZeroTable == [i \in 0 .. PAGE_SIZE_ENTRIES - 1 |-> EmptyEntry]

\* the k-th frame the provider hands out
FrameBase(k) == Addr(0, FramePoolGiB, k, 0)

(***************************************************************************)
(* The address space as a value: the root table (pml4), the frames that    *)
(* hold the lower tables (mem, keyed by the frame's physical address), the *)
(* number of frames drawn from the provider (nalloc), how the running call *)
(* has ended so far (status), the number of invocations of map_generic by  *)
(* itself that are on the stack (depth) and the number of leaf slots the   *)
(* loops have gone over (visited).                                         *)
(***************************************************************************)
Panic(s) == [s EXCEPT !.status = "Panic"]

\* a recursion that does not end uses up the kernel stack
Overflow(s) == [s EXCEPT !.status = "Overflow"]

\* pager.allocate_base_page() succeeds
can_allocate(s) == s.nalloc < MaxFrames

\* fault variant of expect_allocation: the failure is returned as an error
allocation_error(s) == [s EXCEPT !.status = "Err"]

\* .expect("Allocation must work") on a provider that has no frame left
expect_allocation(s) == Panic(s)

\* fault variant of allocate_base_page: the provider hands out one frame twice
allocate_base_page_again(s) == FrameBase(0)

\* pager.allocate_base_page().expect(..) and frame.zero(): the frame drawn
allocate_base_page(s) == FrameBase(s.nalloc)

\* fault variant of zero_frame: the frame keeps an entry it held before
zero_frame_skipped(s) ==
    [s EXCEPT !.mem = (allocate_base_page(s) :>
                         [ZeroTable EXCEPT ![PAGE_SIZE_ENTRIES - 1] =
                            Entry(Addr(0, 0, 0, 0), {"P", "RW"})]) @@ s.mem,
              !.nalloc = s.nalloc + 1]

\* fault variant of zero_frame: a second frame is drawn and left unused
zero_frame_leaks(s) ==
    [s EXCEPT !.mem = (allocate_base_page(s) :> ZeroTable) @@ s.mem,
              !.nalloc = s.nalloc + 2]

\* the address space once the frame is drawn and zeroed
zero_frame(s) ==
    [s EXCEPT !.mem = (allocate_base_page(s) :> ZeroTable) @@ s.mem,
              !.nalloc = s.nalloc + 1]

\* the entry new_pt / new_pd / new_pdpt return for the frame
new_pt(frame) == Entry(frame, {"P", "RW", "US"})

\* fault variant of new_pd: the table is opened to the kernel only
new_pd_kernel_only(frame) == Entry(frame, {"P", "RW"})

new_pd(frame) == Entry(frame, {"P", "RW", "US"})

new_pdpt(frame) == Entry(frame, {"P", "RW", "US"})

\* get_pt / get_pd / get_pdpt: the table an entry points to
get_pt(entry) == entry.addr

get_pd(entry) == entry.addr

get_pdpt(entry) == entry.addr

\* the leaf entries written at the three levels
huge_leaf(paddr, rights) == Entry(paddr, {"P", "PS"} \cup to_pdpt_rights(rights))

\* fault variant of large_leaf: the leaf is always writable
large_leaf_writable(paddr, rights) ==
    Entry(paddr, {"P", "PS", "RW"} \cup to_pd_rights(rights))

large_leaf(paddr, rights) == Entry(paddr, {"P", "PS"} \cup to_pd_rights(rights))

\* fault variant of base_leaf: the flags of a table pointer are written
base_leaf_table_flags(paddr, rights) == Entry(paddr, {"P", "RW", "US"})

base_leaf(paddr, rights) == Entry(paddr, {"P"} \cup to_pt_rights(rights))

\* PML4_SLOT_SIZE * pml4_idx + HUGE_PAGE_SIZE * pdpt_idx + LARGE_PAGE_SIZE * pd_idx
vaddr_pos(pml4_idx, pdpt_idx, pd_idx) ==
    Addr(0, PAGE_SIZE_ENTRIES * pml4_idx + pdpt_idx, LARGE_PAGE_SIZE * pd_idx, 0)

\* fault variant of huge_fits: a mapping of exactly 1 GiB is not taken as huge
huge_fits_strict(vbase, pbase, n, pml4_idx, pdpt_idx) ==
    /\ vbase = vaddr_pos(pml4_idx, pdpt_idx, 0)
    /\ huge_page_offset(pbase) = Size(0, 0)
    /\ n > HUGE_PAGE_SIZE

\* the test that selects the 1 GiB path
huge_fits(vbase, pbase, n, pml4_idx, pdpt_idx) ==
    /\ vbase = vaddr_pos(pml4_idx, pdpt_idx, 0)
    /\ huge_page_offset(pbase) = Size(0, 0)
    /\ n >= HUGE_PAGE_SIZE

\* fault variant of large_fits: a remainder of exactly 2 MiB is not taken
large_fits_strict(vbase, pbase, n, pml4_idx, pdpt_idx, pd_idx) ==
    /\ vbase = vaddr_pos(pml4_idx, pdpt_idx, pd_idx)
    /\ large_page_offset(pbase) = Size(0, 0)
    /\ n > LARGE_PAGE_SIZE

\* fault variant of large_fits: the physical base is not tested
large_fits_any_pbase(vbase, pbase, n, pml4_idx, pdpt_idx, pd_idx) ==
    /\ vbase = vaddr_pos(pml4_idx, pdpt_idx, pd_idx)
    /\ n >= LARGE_PAGE_SIZE

\* fault variant of large_fits: the size that is left is not tested
large_fits_any_size(vbase, pbase, n, pml4_idx, pdpt_idx, pd_idx) ==
    /\ vbase = vaddr_pos(pml4_idx, pdpt_idx, pd_idx)
    /\ large_page_offset(pbase) = Size(0, 0)

\* fault variant of large_fits: the slot address is compared with bits 0..47
\* of vbase
large_fits_low48(vbase, pbase, n, pml4_idx, pdpt_idx, pd_idx) ==
    /\ [vbase EXCEPT !.hi = 0] = vaddr_pos(pml4_idx, pdpt_idx, pd_idx)
    /\ large_page_offset(pbase) = Size(0, 0)
    /\ n >= LARGE_PAGE_SIZE

\* the test that selects the 2 MiB path
large_fits(vbase, pbase, n, pml4_idx, pdpt_idx, pd_idx) ==
    /\ vbase = vaddr_pos(pml4_idx, pdpt_idx, pd_idx)
    /\ large_page_offset(pbase) = Size(0, 0)
    /\ n >= LARGE_PAGE_SIZE

\* The three loops run at most PAGE_SIZE_ENTRIES times each; they are given by
\* their result: the number of iterations, the slots written and the iteration
\* at which the loop panics, if any.

\* fault variant of leaf_iterations: the loop body runs before the test
leaf_iterations_do_while(n, page, idx) ==
    IF n \div page = 0 THEN 1
    ELSE IF n \div page < PAGE_SIZE_ENTRIES - idx THEN n \div page
    ELSE PAGE_SIZE_ENTRIES - idx

\* iterations of `while mapped < n && (n - mapped) >= page && idx < 512`
leaf_iterations(n, page, idx) ==
    IF n \div page < PAGE_SIZE_ENTRIES - idx THEN n \div page
    ELSE PAGE_SIZE_ENTRIES - idx

\* the slots among the `count` from idx that are already present
present_slots(table, idx, count) ==
    {i \in idx .. idx + count - 1 : is_present(table[i])}

\* the first of them: where the 1 GiB and the 2 MiB loops panic
first_present(table, idx, count) ==
    CHOOSE i \in present_slots(table, idx, count) :
        \A j \in present_slots(table, idx, count) : i <= j

\* the 1 GiB loop: assert!(!pdpt[pdpt_idx].is_present()), then write the leaf
huge_loop(s, pdpt, pdpt_idx, pbase, n, rights) ==
    LET count == leaf_iterations(n, HUGE_PAGE_SIZE, pdpt_idx)
        table == s.mem[pdpt]
        clash == present_slots(table, pdpt_idx, count) # {}
        stop  == IF clash THEN first_present(table, pdpt_idx, count)
                 ELSE pdpt_idx + count
        s1 == [s EXCEPT !.mem[pdpt] =
                 [i \in 0 .. PAGE_SIZE_ENTRIES - 1 |->
                    IF pdpt_idx <= i /\ i < stop
                    THEN huge_leaf(AddPages(pbase, (i - pdpt_idx) * HUGE_PAGE_SIZE), rights)
                    ELSE table[i]]]
    IN  [s |-> IF clash THEN Panic(s1) ELSE s1,
         mapped |-> (stop - pdpt_idx) * HUGE_PAGE_SIZE,
         slots |-> stop - pdpt_idx]

\* fault variant of large_loop: a present slot is overwritten with the leaf
large_loop_overwrite(s, pd, pd_idx, pbase, n, rights) ==
    LET count == leaf_iterations(n, LARGE_PAGE_SIZE, pd_idx)
        table == s.mem[pd]
    IN  [s |-> [s EXCEPT !.mem[pd] =
                  [i \in 0 .. PAGE_SIZE_ENTRIES - 1 |->
                     IF pd_idx <= i /\ i < pd_idx + count
                     THEN large_leaf(AddPages(pbase, (i - pd_idx) * LARGE_PAGE_SIZE), rights)
                     ELSE table[i]]],
         mapped |-> count * LARGE_PAGE_SIZE,
         slots |-> count]

\* fault variant of large_loop: the run is examined before any slot is written
large_loop_checks_first(s, pd, pd_idx, pbase, n, rights) ==
    LET count == leaf_iterations(n, LARGE_PAGE_SIZE, pd_idx)
        table == s.mem[pd]
        clash == present_slots(table, pd_idx, count) # {}
        s1 == [s EXCEPT !.mem[pd] =
                 [i \in 0 .. PAGE_SIZE_ENTRIES - 1 |->
                    IF pd_idx <= i /\ i < pd_idx + count
                    THEN large_leaf(AddPages(pbase, (i - pd_idx) * LARGE_PAGE_SIZE), rights)
                    ELSE table[i]]]
    IN  IF clash THEN [s |-> Panic(s), mapped |-> 0, slots |-> 0]
        ELSE [s |-> s1, mapped |-> count * LARGE_PAGE_SIZE, slots |-> count]

\* the 2 MiB loop: panic!("Already mapped pd ..") on a present slot, else write
large_loop(s, pd, pd_idx, pbase, n, rights) ==
    LET count == leaf_iterations(n, LARGE_PAGE_SIZE, pd_idx)
        table == s.mem[pd]
        clash == present_slots(table, pd_idx, count) # {}
        stop  == IF clash THEN first_present(table, pd_idx, count)
                 ELSE pd_idx + count
        s1 == [s EXCEPT !.mem[pd] =
                 [i \in 0 .. PAGE_SIZE_ENTRIES - 1 |->
                    IF pd_idx <= i /\ i < stop
                    THEN large_leaf(AddPages(pbase, (i - pd_idx) * LARGE_PAGE_SIZE), rights)
                    ELSE table[i]]]
    IN  [s |-> IF clash THEN Panic(s1) ELSE s1,
         mapped |-> (stop - pd_idx) * LARGE_PAGE_SIZE,
         slots |-> stop - pd_idx]

\* fault variant of pt_slot: a present slot takes the flags of the new leaf too
pt_slot_merge_flags(old, new) ==
    IF ~is_present(old) THEN new ELSE Entry(old.addr, old.flags \cup new.flags)

\* fault variant of pt_slot: a present slot is cleared
pt_slot_unmaps(old, new) == IF ~is_present(old) THEN new ELSE EmptyEntry

\* fault variant of pt_slot: a present slot is overwritten
pt_slot_overwrite(old, new) == new

\* one iteration of the 4 KiB loop on a slot: written only if non-present
pt_slot(old, new) == IF ~is_present(old) THEN new ELSE old

\* fault variant of pt_loop: a present slot stops the call with a panic
pt_loop_strict(s, pt, pt_idx, pbase, n, rights) ==
    LET count == leaf_iterations(n, 1, pt_idx)
        table == s.mem[pt]
        clash == present_slots(table, pt_idx, count) # {}
        stop  == IF clash THEN first_present(table, pt_idx, count)
                 ELSE pt_idx + count
        s1 == [s EXCEPT !.mem[pt] =
                 [i \in 0 .. PAGE_SIZE_ENTRIES - 1 |->
                    IF pt_idx <= i /\ i < stop
                    THEN base_leaf(AddPages(pbase, i - pt_idx), rights)
                    ELSE table[i]]]
    IN  [s |-> IF clash THEN Panic(s1) ELSE s1,
         mapped |-> stop - pt_idx,
         slots |-> stop - pt_idx]

\* fault variant of pt_loop: a skipped slot advances the virtual cursor only
pt_loop_skip_holds_pbase(s, pt, pt_idx, pbase, n, rights) ==
    LET count == leaf_iterations(n, 1, pt_idx)
        table == s.mem[pt]
        skipped == present_slots(table, pt_idx, count)
    IN  [s |-> [s EXCEPT !.mem[pt] =
                  [i \in 0 .. PAGE_SIZE_ENTRIES - 1 |->
                     IF pt_idx <= i /\ i < pt_idx + count
                     THEN pt_slot(table[i],
                                  base_leaf(AddPages(pbase, i - pt_idx
                                              - Cardinality({j \in skipped : j < i})),
                                            rights))
                     ELSE table[i]]],
         mapped |-> count,
         slots |-> count]

\* the 4 KiB loop: `while mapped < n && pt_idx < 512`
pt_loop(s, pt, pt_idx, pbase, n, rights) ==
    LET count == leaf_iterations(n, 1, pt_idx)
        table == s.mem[pt]
    IN  [s |-> [s EXCEPT !.mem[pt] =
                  [i \in 0 .. PAGE_SIZE_ENTRIES - 1 |->
                     IF pt_idx <= i /\ i < pt_idx + count
                     THEN pt_slot(table[i],
                                  base_leaf(AddPages(pbase, i - pt_idx), rights))
                     ELSE table[i]]],
         mapped |-> count,
         slots |-> count]

RECURSIVE map_generic(_, _, _, _, _)

\* fault variant of map_rest: what is left after the table is not mapped
map_rest_dropped(r, vbase, pbase, n, rights) ==
    [r.s EXCEPT !.visited = @ + r.slots]

\* fault variant of map_rest: the physical base is not advanced
map_rest_stale_pbase(r, vbase, pbase, n, rights) ==
    LET s1 == [r.s EXCEPT !.visited = @ + r.slots]
    IN  IF s1.status # "Ok" THEN s1
        ELSE IF r.mapped = n THEN s1
        ELSE IF r.mapped = 0 THEN Overflow(s1)
        ELSE map_generic([s1 EXCEPT !.depth = @ + 1],
                         AddPages(vbase, r.mapped), pbase,
                         Size(n - r.mapped, 0), rights)

\* the tail of every path: recurse for what is left, or return Ok.  A pass
\* that has mapped nothing would call map_generic with the arguments and the
\* tables it had itself, without end.
map_rest(r, vbase, pbase, n, rights) ==
    LET s1 == [r.s EXCEPT !.visited = @ + r.slots]
    IN  IF s1.status # "Ok" THEN s1
        ELSE IF r.mapped = n THEN s1
        ELSE IF r.mapped = 0 THEN Overflow(s1)
        ELSE map_generic([s1 EXCEPT !.depth = @ + 1],
                         AddPages(vbase, r.mapped), AddPages(pbase, r.mapped),
                         Size(n - r.mapped, 0), rights)

\* level 1: fill the page table
map_in_pt(s, pt, vbase, pbase, n, rights) ==
    map_rest(pt_loop(s, pt, pt_index(vbase), pbase, n, rights),
             vbase, pbase, n, rights)

\* level 2: the slot of the page directory
map_in_pd(s, pd, vbase, pbase, n, rights, pml4_idx, pdpt_idx) ==
    LET pd_idx == pd_index(vbase)
        absent == ~is_present(s.mem[pd][pd_idx])
    IN  IF absent /\ large_fits(vbase, pbase, n, pml4_idx, pdpt_idx, pd_idx)
        THEN map_rest(large_loop(s, pd, pd_idx, pbase, n, rights),
                      vbase, pbase, n, rights)
        ELSE IF absent /\ ~can_allocate(s) THEN expect_allocation(s)
        ELSE LET s1 == IF absent
                       THEN [zero_frame(s) EXCEPT
                               !.mem[pd][pd_idx] = new_pt(allocate_base_page(s))]
                       ELSE s
             IN  IF is_page(s1.mem[pd][pd_idx]) THEN Panic(s1)
                 ELSE map_in_pt(s1, get_pt(s1.mem[pd][pd_idx]),
                                vbase, pbase, n, rights)

\* level 3: the slot of the page-directory-pointer table
map_in_pdpt(s, pdpt, vbase, pbase, n, rights, pml4_idx) ==
    LET pdpt_idx == pdpt_index(vbase)
        absent == ~is_present(s.mem[pdpt][pdpt_idx])
    IN  IF absent /\ huge_fits(vbase, pbase, n, pml4_idx, pdpt_idx)
        THEN map_rest(huge_loop(s, pdpt, pdpt_idx, pbase, n, rights),
                      vbase, pbase, n, rights)
        ELSE IF absent /\ ~can_allocate(s) THEN expect_allocation(s)
        ELSE LET s1 == IF absent
                       THEN [zero_frame(s) EXCEPT
                               !.mem[pdpt][pdpt_idx] = new_pd(allocate_base_page(s))]
                       ELSE s
             IN  IF is_page(s1.mem[pdpt][pdpt_idx]) THEN Panic(s1)
                 ELSE map_in_pd(s1, get_pd(s1.mem[pdpt][pdpt_idx]),
                                vbase, pbase, n, rights, pml4_idx, pdpt_idx)

\* fault variant of args_ok: the alignment of vbase is not asserted
args_ok_no_vbase(vbase, pbase, psize, rights) ==
    /\ pbase.off = 0
    /\ psize.off = 0
    /\ rights # "None"

\* fault variant of args_ok: a zero size is asserted against as well
args_ok_nonzero(vbase, pbase, psize, rights) ==
    /\ pbase.off = 0
    /\ psize.off = 0
    /\ vbase.off = 0
    /\ rights # "None"
    /\ psize.pg > 0

\* the assertions map_generic opens with
args_ok(vbase, pbase, psize, rights) ==
    /\ pbase.off = 0
    /\ psize.off = 0
    /\ vbase.off = 0
    /\ rights # "None"

\* VSpace::map_generic(vbase, (pbase, psize), rights, pager)
map_generic(s, vbase, pbase, psize, rights) ==
    IF ~args_ok(vbase, pbase, psize, rights) THEN Panic(s)
    ELSE LET pml4_idx == pml4_index(vbase)
             absent   == ~is_present(s.pml4[pml4_idx])
         IN  IF absent /\ ~can_allocate(s) THEN expect_allocation(s)
             ELSE LET s1 == IF absent
                            THEN [zero_frame(s) EXCEPT
                                    !.pml4[pml4_idx] = new_pdpt(allocate_base_page(s))]
                            ELSE s
                  IN  map_in_pdpt(s1, get_pdpt(s1.pml4[pml4_idx]),
                                  vbase, pbase, psize.pg, rights, pml4_idx)

\* VSpace::resolve_addr(addr): <<TRUE, paddr>> is Some(paddr), <<FALSE>> is None
None == <<FALSE>>

Some(x) == <<TRUE, x>>

\* fault variant of resolve_huge: the offset inside a 2 MiB page is added
resolve_huge_as_large(entry, addr) ==
    Some(AddSize(entry.addr, large_page_offset(addr)))

resolve_huge(entry, addr) == Some(AddSize(entry.addr, huge_page_offset(addr)))

resolve_large(entry, addr) == Some(AddSize(entry.addr, large_page_offset(addr)))

resolve_base(entry, addr) == Some(AddSize(entry.addr, base_page_offset(addr)))

\* fault variant of resolve_addr: the level-1 entry is not tested for presence
resolve_addr_unchecked(s, addr) ==
    LET e4 == s.pml4[pml4_index(addr)]
    IN  IF ~is_present(e4) THEN None
        ELSE LET e3 == s.mem[get_pdpt(e4)][pdpt_index(addr)]
             IN  IF ~is_present(e3) THEN None
                 ELSE IF is_page(e3) THEN resolve_huge(e3, addr)
                 ELSE LET e2 == s.mem[get_pd(e3)][pd_index(addr)]
                      IN  IF ~is_present(e2) THEN None
                          ELSE IF is_page(e2) THEN resolve_large(e2, addr)
                          ELSE resolve_base(s.mem[get_pt(e2)][pt_index(addr)], addr)

resolve_addr(s, addr) ==
    LET e4 == s.pml4[pml4_index(addr)]
    IN  IF ~is_present(e4) THEN None
        ELSE LET e3 == s.mem[get_pdpt(e4)][pdpt_index(addr)]
             IN  IF ~is_present(e3) THEN None
                 ELSE IF is_page(e3) THEN resolve_huge(e3, addr)
                 ELSE LET e2 == s.mem[get_pd(e3)][pd_index(addr)]
                      IN  IF ~is_present(e2) THEN None
                          ELSE IF is_page(e2) THEN resolve_large(e2, addr)
                          ELSE LET e1 == s.mem[get_pt(e2)][pt_index(addr)]
                               IN  IF is_present(e1) THEN resolve_base(e1, addr)
                                   ELSE None

(***************************************************************************)
(* The kernel control block of the core.  A KCB is known by its address;   *)
(* the core holds it in the GS base register and in IA32_KERNEL_GSBASE.    *)
(***************************************************************************)
\* ptr::null_mut()
NullKcb == 0

\* addresses of the kernel control blocks
Kcbs == 1 .. MaxKcbs

\* try_get_kcb(): Some(kcb) for a non-null GS base, else None
try_get_kcb(gs) == IF gs # NullKcb THEN Some(gs) ELSE None

\* fault variant of kcb_found: the GS base is not tested
kcb_found_always(gs) == TRUE

\* get_kcb(): assert!(kcb != ptr::null_mut(), "KCB not found in gs register.")
kcb_found(gs) == gs # NullKcb

\* fault variant of set_kcb: IA32_KERNEL_GSBASE is left as it was
set_kcb_gs_only(regs, kcb) == [regs EXCEPT !.gs_base = kcb]

\* set_kcb(kcb): wrgsbase(kcb), wrmsr(IA32_KERNEL_GSBASE, kcb)
set_kcb(regs, kcb) == [gs_base |-> kcb, kernel_gs_base |-> kcb]

\* init_kcb(kcb)
init_kcb(regs, kcb) == set_kcb(regs, kcb)

\* the swapgs instruction: GS base and IA32_KERNEL_GSBASE change places
swapgs(regs) == [gs_base |-> regs.kernel_gs_base, kernel_gs_base |-> regs.gs_base]

\* VSpace::map_identity_with_offset(at_offset, pbase, end, rights)
map_identity_with_offset(s, at_offset, pbase, end, rights) ==
    IF ~AddrGT(end, pbase) THEN Panic(s)
    ELSE IF ~kcb_found(s.gs_base) THEN Panic(s)
    ELSE map_generic(s, AddAddr(at_offset, pbase), pbase, SubAddr(end, pbase), rights)

\* fault variant of map_identity: the base is passed as the offset too
map_identity_doubled(s, base, end, rights) ==
    map_identity_with_offset(s, base, base, end, rights)

\* VSpace::map_identity(base, end, rights): .expect() panics on an Err, and
\* map_identity_with_offset returns no Err
map_identity(s, base, end, rights) ==
    LET r == map_identity_with_offset(s, Addr(0, 0, 0, 0), base, end, rights)
    IN  IF r.status = "Ok" THEN r ELSE Panic(r)

\* fault variant of allocate_pages_aligned: paddr & !alignment_mask
allocate_pages_aligned_down(paddr, align_to) ==
    AddPages(paddr, 0 - (paddr.pg % align_to))

\* VSpace::allocate_pages_aligned: (paddr + alignment_mask) & !alignment_mask
\* for the region allocate_pages returned at paddr; align_to in base pages
allocate_pages_aligned(paddr, align_to) ==
    AddPages(paddr, (align_to - (paddr.pg % align_to)) % align_to)

\* VSpace::map(base, size, rights, palignment), allocate_pages returning paddr
map(s, base, size, rights, align_to, paddr) ==
    IF base.off # 0 \/ size.off # 0 THEN Panic(s)
    ELSE IF ~kcb_found(s.gs_base) THEN Panic(s)
    ELSE map_generic(s, base, allocate_pages_aligned(paddr, align_to), size, rights)

\* Frame { base, size }: a region of physical memory of whole base pages
Frame(base, pages) == [base |-> base, size |-> Size(pages, 0)]

\* base % n pages == 0, n > 0: the page number of base is hi * 2^36 +
\* gb * 2^18 + pg, reduced modulo n term by term
is_multiple_of(base, n) ==
    LET r18 == HUGE_PAGE_SIZE % n
        r36 == (r18 * r18) % n
    IN  /\ base.off = 0
        /\ ((((base.hi % n) * r36) % n) + (((base.gb % n) * r18) % n) + base.pg) % n = 0

RECURSIVE pages_before(_, _)

\* the pages of the frames that precede the k-th of the list
pages_before(frames, k) ==
    IF k <= 1 THEN 0 ELSE pages_before(frames, k - 1) + frames[k - 1][1].size.pg

\* fault variant of first_frame_aligned: every frame is held to the alignment
\* of its own size at the address it is placed at
all_frames_aligned(base, frames) ==
    \A k \in 1 .. Len(frames) :
        is_multiple_of(AddPages(base, pages_before(frames, k)), frames[k][1].size.pg)

\* assert_eq!(base % frames[0].0.size(), 0)
first_frame_aligned(base, frames) == is_multiple_of(base, frames[1][1].size.pg)

\* VSpace::map_frame(base, frame, action, pager): the result of map_generic
\* is dropped and Ok(()) returned, so only a panic of map_generic shows
map_frame(s, base, frame, action) ==
    LET r == map_generic(s, base, frame.base, frame.size, action)
    IN  IF r.status = "Panic" THEN r ELSE [r EXCEPT !.status = "Ok"]

\* fault variant of next_base: the base advances by one base page
next_base_one_page(current_base, frame) == AddPages(current_base, 1)

\* current_base += frame.size()
next_base(current_base, frame) == AddSize(current_base, frame.size)

RECURSIVE map_frames_from(_, _, _)

\* for (frame, rights) in frames.into_iter() { map_frame(..)?; current_base += .. }
map_frames_from(s, current_base, frames) ==
    IF frames = << >> THEN s
    ELSE LET r == map_frame(s, current_base, Head(frames)[1], Head(frames)[2])
         IN  IF r.status # "Ok" THEN r
             ELSE map_frames_from(r, next_base(current_base, Head(frames)[1]),
                                  Tail(frames))

\* VSpace::map_frames(base, frames, pager); the remainder by a zero size panics
map_frames(s, base, frames) ==
    IF Len(frames) = 0 THEN Panic(s)
    ELSE IF frames[1][1].size.pg = 0 THEN Panic(s)
    ELSE IF ~first_frame_aligned(base, frames) THEN Panic(s)
    ELSE map_frames_from(s, base, frames)

(***************************************************************************)
(* The state machine.  pml4, mem and nalloc are the address space and the  *)
(* provider's counter; last records the latest call and how it ended; pre  *)
(* is the address space as that call found it; ncalls counts map calls.    *)
(* last.depth is the deepest nesting of map_generic in itself the call     *)
(* reached, last.visited the leaf slots its loops went over.               *)
(***************************************************************************)
Cur == [pml4 |-> pml4, mem |-> mem, nalloc |-> nalloc, status |-> "Ok",
        gs_base |-> gs_base, depth |-> 0, visited |-> 0]

NoArgs == [vbase |-> Addr(0, 0, 0, 0), pbase |-> Addr(0, 0, 0, 0),
           psize |-> Size(0, 0), rights |-> "None",
           at_offset |-> Addr(0, 0, 0, 0), end |-> Addr(0, 0, 0, 0),
           frames |-> << >>, kcb |-> NullKcb]

\* VSpace::new(): the root table with 512 non-present entries, no frame
\* drawn; n is the number of frames the provider has handed out before
NewVSpaceWith(n) ==
    /\ pml4 = [i \in 0 .. PAGE_SIZE_ENTRIES - 1 |-> EmptyEntry]
    /\ mem = << >>
    /\ nalloc = n
    /\ last = [op |-> "new", args |-> NoArgs, status |-> "Ok", result |-> None,
               depth |-> 0, visited |-> 0]
    /\ pre = [pml4 |-> [i \in 0 .. PAGE_SIZE_ENTRIES - 1 |-> EmptyEntry],
              mem |-> << >>, nalloc |-> n]
    /\ ncalls = 0

NewVSpace == NewVSpaceWith(0)

\* the kernel after bring-up: a new address space on a core whose KCB has
\* been installed
Init ==
    /\ NewVSpace
    /\ gs_base = 1
    /\ kernel_gs_base = 1
    /\ installed = 1

\* a panic halts the kernel: nothing runs after it
Running == last.status = "Ok"

Commit(s, op, args) ==
    /\ pml4' = s.pml4
    /\ mem' = s.mem
    /\ nalloc' = s.nalloc
    /\ last' = [op |-> op, args |-> args, status |-> s.status, result |-> None,
                depth |-> s.depth, visited |-> s.visited]
    /\ pre' = [pml4 |-> pml4, mem |-> mem, nalloc |-> nalloc]
    /\ ncalls' = ncalls + 1
    /\ UNCHANGED <<gs_base, kernel_gs_base, installed>>

\* addresses by 1 GiB slot and page
PageAddr(gb, pg) == Addr(0, gb, pg, 0)

\* 0xffff_8000_0000_0000, the base of the canonical higher half
HigherHalf == Addr(HI_RANGE - 1, GB_SLOTS \div 2, 0, 0)

RWK == "ReadWriteKernel"

Req(v, p, n, r) == [vbase |-> v, pbase |-> p, psize |-> n, rights |-> r]

\* the map_generic calls of the model
Requests ==
    { Req(PageAddr(0, 1), PageAddr(0, 1), Size(1, 0), RWK),
      Req(PageAddr(0, 1), PageAddr(0, 1), Size(1, 0), "ReadUser"),
      Req(PageAddr(0, 1), PageAddr(0, 5), Size(1, 0), "ReadUser"),
      Req(PageAddr(0, 0), PageAddr(0, LARGE_PAGE_SIZE), Size(LARGE_PAGE_SIZE, 0), "ReadUser"),
      Req(PageAddr(0, 1), PageAddr(0, 1), Size(LARGE_PAGE_SIZE + 2, 0), RWK),
      Req(PageAddr(0, 2), PageAddr(0, 2), Size(2, 0), RWK),
      Req(PageAddr(1, 0), PageAddr(1, 0), Size(HUGE_PAGE_SIZE, 0), "ReadWriteExecuteKernel"),
      Req(PageAddr(1, 0), PageAddr(2, 0), Size(2 * HUGE_PAGE_SIZE + 1, 0), RWK),
      Req(PageAddr(1, 1), PageAddr(0, 7), Size(1, 0), RWK),
      Req(PageAddr(1, LARGE_PAGE_SIZE), PageAddr(1, LARGE_PAGE_SIZE), Size(LARGE_PAGE_SIZE, 0),
          "ReadWriteExecuteKernel"),
      Req(PageAddr(0, 1), PageAddr(0, LARGE_PAGE_SIZE + 1), Size(1, 0), "ReadUser"),
      Req(PageAddr(PAGE_SIZE_ENTRIES - 1, 0), PageAddr(4, 0), Size(2 * HUGE_PAGE_SIZE, 0), RWK),
      Req(PageAddr(0, 0), PageAddr(0, 0), Size(0, 0), RWK),
      Req(PageAddr(3, 0), PageAddr(0, 0), Size(0, 0), RWK),
      Req(Addr(0, 0, 1, 564), PageAddr(0, 1), Size(1, 0), RWK),
      Req(PageAddr(0, 1), Addr(0, 0, 1, 8), Size(1, 0), RWK),
      Req(PageAddr(0, 1), PageAddr(0, 1), Size(0, 2048), RWK),
      Req(PageAddr(0, 1), PageAddr(0, 1), Size(1, 0), "None"),
      Req(HigherHalf, PageAddr(0, 0), Size(LARGE_PAGE_SIZE, 0), RWK),
      Req(PageAddr(0, 2 * LARGE_PAGE_SIZE), PageAddr(0, 3), Size(LARGE_PAGE_SIZE, 0), RWK) }

MapGeneric(q) ==
    /\ Running
    /\ ncalls < MaxCalls
    /\ Commit(map_generic(Cur, q.vbase, q.pbase, q.psize, q.rights), "map_generic",
              [NoArgs EXCEPT !.vbase = q.vbase, !.pbase = q.pbase,
                             !.psize = q.psize, !.rights = q.rights])

\* addresses resolve_addr is asked for
Probes ==
    { Addr(0, 0, 1, 564), PageAddr(0, 1), Addr(0, 0, LARGE_PAGE_SIZE + 1, 4095),
      Addr(0, 1, LARGE_PAGE_SIZE + 3, 17), Addr(0, 2, 1, 0),
      AddBytes(HigherHalf, 8), Addr(1, 0, 1, 564) }

ResolveAddr(a) ==
    /\ Running
    /\ last.op # "resolve_addr"
    /\ last' = [op |-> "resolve_addr", args |-> [NoArgs EXCEPT !.vbase = a],
                status |-> "Ok", result |-> resolve_addr(Cur, a), depth |-> 0, visited |-> 0]
    /\ pre' = [pml4 |-> pml4, mem |-> mem, nalloc |-> nalloc]
    /\ UNCHANGED <<pml4, mem, nalloc, ncalls, gs_base, kernel_gs_base, installed>>

\* the map_identity_with_offset calls of the model: <<at_offset, pbase, end, rights>>
OffsetRequests ==
    { <<PageAddr(0, 32), PageAddr(0, 1), PageAddr(0, 2), RWK>>,
      <<PageAddr(1, 0), PageAddr(0, 0), PageAddr(0, LARGE_PAGE_SIZE), "ReadUser">>,
      <<PageAddr(0, 32), PageAddr(0, 1), PageAddr(0, 1), RWK>>,
      <<PageAddr(0, 0), PageAddr(0, 2), PageAddr(0, 1), RWK>>,
      <<PageAddr(0, 2), Addr(0, 0, 0, 2048), Addr(0, 0, 1, 2048), RWK>> }

MapIdentityWithOffset(q) ==
    /\ Running
    /\ ncalls < MaxCalls
    /\ Commit(map_identity_with_offset(Cur, q[1], q[2], q[3], q[4]),
              "map_identity_with_offset",
              [NoArgs EXCEPT !.at_offset = q[1], !.pbase = q[2], !.end = q[3],
                             !.rights = q[4]])

\* the map_identity calls of the model: <<base, end, rights>>
IdentityRequests ==
    { <<PageAddr(0, 0), PageAddr(0, 3), RWK>>,
      <<PageAddr(0, LARGE_PAGE_SIZE), PageAddr(0, 2 * LARGE_PAGE_SIZE), "ReadUser">>,
      <<PageAddr(0, 3), PageAddr(0, 3), RWK>> }

MapIdentity(q) ==
    /\ Running
    /\ ncalls < MaxCalls
    /\ Commit(map_identity(Cur, q[1], q[2], q[3]), "map_identity",
              [NoArgs EXCEPT !.pbase = q[1], !.end = q[2], !.rights = q[3]])

\* the map calls of the model: <<base, size, rights, palignment in pages, paddr>>
MapRequests ==
    { <<PageAddr(0, 255), Size(64, 0), RWK, 1, PageAddr(0, 768)>>,
      <<PageAddr(0, 0), Size(1, 0), "ReadUser", LARGE_PAGE_SIZE, PageAddr(0, 769)>>,
      <<Addr(0, 0, 255, 1), Size(64, 0), RWK, 1, PageAddr(0, 768)>> }

Map(q) ==
    /\ Running
    /\ ncalls < MaxCalls
    /\ Commit(map(Cur, q[1], q[2], q[3], q[4], q[5]), "map",
              [NoArgs EXCEPT !.vbase = q[1], !.psize = q[2], !.rights = q[3],
                             !.pbase = allocate_pages_aligned(q[5], q[4])])

\* the map_frames calls of the model: <<base, <<frame, rights>> list>>
FramesRequests ==
    { <<PageAddr(0, 256), << <<Frame(PageAddr(0, 40), 1), RWK>>,
                             <<Frame(PageAddr(0, 7), 1), RWK>>,
                             <<Frame(PageAddr(0, 99), 1), RWK>> >> >>,
      <<PageAddr(0, LARGE_PAGE_SIZE),
        << <<Frame(PageAddr(0, 9), 1), "ReadUser">>,
           <<Frame(PageAddr(0, 2 * LARGE_PAGE_SIZE), LARGE_PAGE_SIZE), RWK>> >> >>,
      <<PageAddr(0, 2 * LARGE_PAGE_SIZE),
        << <<Frame(PageAddr(0, 4 * LARGE_PAGE_SIZE), LARGE_PAGE_SIZE), "ReadExecuteUser">>,
           <<Frame(PageAddr(0, 11), 1), RWK>> >> >>,
      <<PageAddr(0, 1),
        << <<Frame(PageAddr(0, 4 * LARGE_PAGE_SIZE), LARGE_PAGE_SIZE), RWK>> >> >>,
      <<PageAddr(0, 256), << >> >>,
      <<PageAddr(0, 6), << <<Frame(PageAddr(0, 6), 2), RWK>>,
                           <<Frame(PageAddr(0, 80), 1), "ReadUser">> >> >> }

MapFrames(q) ==
    /\ Running
    /\ ncalls < MaxCalls
    /\ Commit(map_frames(Cur, q[1], q[2]), "map_frames",
              [NoArgs EXCEPT !.vbase = q[1], !.frames = q[2]])

\* the map_frame calls of the model: <<base, frame, action>>
FrameRequests ==
    { <<PageAddr(0, 3), Frame(PageAddr(0, 77), 1), RWK>>,
      <<PageAddr(0, 3 * LARGE_PAGE_SIZE), Frame(PageAddr(0, LARGE_PAGE_SIZE), LARGE_PAGE_SIZE),
        "ReadUser">> }

MapFrame(q) ==
    /\ Running
    /\ ncalls < MaxCalls
    /\ Commit(map_frame(Cur, q[1], q[2], q[3]), "map_frame",
              [NoArgs EXCEPT !.vbase = q[1], !.frames = << <<q[2], q[3]>> >>])

Next ==
    \/ \E q \in Requests : MapGeneric(q)
    \/ \E q \in OffsetRequests : MapIdentityWithOffset(q)
    \/ \E q \in IdentityRequests : MapIdentity(q)
    \/ \E q \in MapRequests : Map(q)
    \/ \E q \in FramesRequests : MapFrames(q)
    \/ \E q \in FrameRequests : MapFrame(q)
    \/ \E a \in Probes : ResolveAddr(a)

Spec == Init /\ [][Next]_vars

(***************************************************************************)
(* The property tests map_base_doesnt_crash and map_large_doesnt_crash:    *)
(* one map call on a VSpace::new(), palignment = BASE_PAGE_SIZE.           *)
(***************************************************************************)
\* the address of page number k
PageNo(k) == Addr(0, k \div HUGE_PAGE_SIZE, k % HUGE_PAGE_SIZE, 0)

\* bases the tests draw (base & !0xfff, base & !0x1fffff)
TestBases ==
    { PageNo(0), PageNo(1), PageNo(255), PageNo(LARGE_PAGE_SIZE - 1),
      PageNo(LARGE_PAGE_SIZE), PageNo(HUGE_PAGE_SIZE - 1), PageNo(HUGE_PAGE_SIZE),
      PageNo(TEST_BASE_PAGES - 1) }

\* sizes the tests draw (size & !0xfff), in pages
TestSizes ==
    { 0, 1, 2, LARGE_PAGE_SIZE - 1, LARGE_PAGE_SIZE, LARGE_PAGE_SIZE + 1,
      TEST_SIZE_PAGES - 1 }

\* where allocate_pages puts the region
TestRegions == { PageNo(768), PageNo(LARGE_PAGE_SIZE) }

MapOnFresh ==
    /\ ncalls = 0
    /\ \E base \in TestBases, size \in TestSizes,
          rights \in MapActions \ {"None"}, paddr \in TestRegions :
          Map(<<base, Size(size, 0), rights, 1, paddr>>)

NextFresh == MapOnFresh

SpecFresh == Init /\ [][NextFresh]_vars

(***************************************************************************)
(* Vocabulary of the properties                                            *)
(***************************************************************************)
\* the address space as the latest call found it
\* One map_generic call on a fresh address space, for every MapAction and for
\* ranges that take 4 KiB, 2 MiB and 1 GiB leaves.
RightsBases ==
    { PageAddr(0, 1), PageAddr(0, LARGE_PAGE_SIZE - 1), PageAddr(0, LARGE_PAGE_SIZE),
      PageAddr(1, 0) }

RightsSizes ==
    { 1, LARGE_PAGE_SIZE + 1, 2 * LARGE_PAGE_SIZE, HUGE_PAGE_SIZE + LARGE_PAGE_SIZE + 1 }

MapWithRights ==
    /\ ncalls = 0
    /\ \E base \in RightsBases, size \in RightsSizes, rights \in MapActions :
          MapGeneric(Req(base, base, Size(size, 0), rights))

NextRights == MapWithRights

SpecRights == Init /\ [][NextRights]_vars

(***************************************************************************)
(* The core from reset: GS base and IA32_KERNEL_GSBASE are null until      *)
(* init_kcb runs.  installed remembers the KCB init_kcb was last given.    *)
(***************************************************************************)
InitBoot ==
    /\ NewVSpace
    /\ gs_base = NullKcb
    /\ kernel_gs_base = NullKcb
    /\ installed = NullKcb

Regs == [gs_base |-> gs_base, kernel_gs_base |-> kernel_gs_base]

KcbStep(op, kcb, status, result, regs) ==
    /\ last' = [op |-> op, args |-> [NoArgs EXCEPT !.kcb = kcb],
                status |-> status, result |-> result, depth |-> 0, visited |-> 0]
    /\ gs_base' = regs.gs_base
    /\ kernel_gs_base' = regs.kernel_gs_base
    /\ UNCHANGED <<pml4, mem, nalloc, pre, ncalls>>

InitKcb(kcb) ==
    /\ Running
    /\ KcbStep("init_kcb", kcb, "Ok", None, init_kcb(Regs, kcb))
    /\ installed' = kcb

TryGetKcb ==
    /\ Running
    /\ KcbStep("try_get_kcb", NullKcb, "Ok", try_get_kcb(gs_base), Regs)
    /\ UNCHANGED installed

GetKcb ==
    /\ Running
    /\ IF kcb_found(gs_base)
       THEN KcbStep("get_kcb", NullKcb, "Ok", Some(gs_base), Regs)
       ELSE KcbStep("get_kcb", NullKcb, "Panic", None, Regs)
    /\ UNCHANGED installed

\* entry to and exit from the kernel on a syscall, trap or interrupt
SwapGs ==
    /\ Running
    /\ KcbStep("swapgs", NullKcb, "Ok", None, swapgs(Regs))
    /\ UNCHANGED installed

NextKcb ==
    \/ \E kcb \in Kcbs : InitKcb(kcb)
    \/ TryGetKcb
    \/ GetKcb
    \/ SwapGs
    \/ \E q \in OffsetRequests : MapIdentityWithOffset(q)
    \/ \E q \in IdentityRequests : MapIdentity(q)

SpecKcb == InitBoot /\ [][NextKcb]_vars

(***************************************************************************)
(* The kernel with a provider that other users have drawn from: it has     *)
(* FramesLeft frames left when the address space is created.               *)
(***************************************************************************)
InitScarce ==
    /\ NewVSpaceWith(MaxFrames - FramesLeft)
    /\ gs_base = 1
    /\ kernel_gs_base = 1
    /\ installed = 1

SpecScarce == InitScarce /\ [][Next]_vars

PreS == [pml4 |-> pre.pml4, mem |-> pre.mem, nalloc |-> pre.nalloc, status |-> "Ok",
         gs_base |-> gs_base, depth |-> 0, visited |-> 0]

\* the latest call changed no table entry and drew no frame
Untouched == pml4 = pre.pml4 /\ mem = pre.mem /\ nalloc = pre.nalloc

\* the page offsets examined in a range of n pages: all of them up to two
\* 2 MiB stretches, and the first two and the last page of every 2 MiB
\* stretch of a longer range
PageOffsets(n) ==
    IF n <= 2 * LARGE_PAGE_SIZE + 2 THEN 0 .. n - 1
    ELSE {k \in {j * LARGE_PAGE_SIZE + r :
                   j \in 0 .. n \div LARGE_PAGE_SIZE, r \in {0, 1, LARGE_PAGE_SIZE - 1}} :
            k < n}

\* the latest call is a map_generic call with these arguments
LastGeneric == last.op = "map_generic"

LastV == last.args.vbase

LastP == last.args.pbase

LastN == last.args.psize.pg

\* the arguments pass the alignment and rights requirements
LastArgsValid ==
    /\ LastV.off = 0
    /\ LastP.off = 0
    /\ last.args.psize.off = 0
    /\ last.args.rights # "None"

\* the range of the latest call was already mapped, page for page, to the
\* same physical pages
AlreadyMappedSame ==
    \A k \in PageOffsets(LastN) :
        resolve_addr(PreS, AddPages(LastV, k)) = Some(AddPages(LastP, k))

\* granularity (in pages) of the leaf that backs addr, 0 if none
leaf_pages(s, addr) ==
    LET e4 == s.pml4[pml4_index(addr)]
    IN  IF ~is_present(e4) THEN 0
        ELSE LET e3 == s.mem[e4.addr][pdpt_index(addr)]
             IN  IF ~is_present(e3) THEN 0
                 ELSE IF is_page(e3) THEN HUGE_PAGE_SIZE
                 ELSE LET e2 == s.mem[e3.addr][pd_index(addr)]
                      IN  IF ~is_present(e2) THEN 0
                          ELSE IF is_page(e2) THEN LARGE_PAGE_SIZE
                          ELSE IF is_present(s.mem[e2.addr][pt_index(addr)]) THEN 1
                          ELSE 0

\* the level-3 entry of addr, non-present when there is no level-3 table
level3_entry(s, addr) ==
    IF is_present(s.pml4[pml4_index(addr)])
    THEN s.mem[s.pml4[pml4_index(addr)].addr][pdpt_index(addr)]
    ELSE EmptyEntry

(***************************************************************************)
(* C1  Round-trip                                                          *)
(***************************************************************************)
\* C1: after every map_generic(v, (p, n), rights) that returns Ok, in any
\* reachable state, resolve(v+k) = Some(p+k) for every page offset k in [0, n).
C1_RoundTrip ==
    (LastGeneric /\ last.status = "Ok") =>
        \A k \in PageOffsets(LastN) :
            resolve_addr(Cur, AddPages(LastV, k)) = Some(AddPages(LastP, k))

(***************************************************************************)
(* C2  Disjointness                                                        *)
(***************************************************************************)
\* C2: a map_generic whose virtual range overlaps a range mapped by an earlier
\* successful call does not return Ok, whatever leaf size backs the overlap.
C2_Disjointness ==
    (LastGeneric /\ \E k \in PageOffsets(LastN) :
                       resolve_addr(PreS, AddPages(LastV, k)) # None)
        => last.status # "Ok"

LastGigaAligned ==
    /\ LastGeneric /\ last.status = "Ok"
    /\ LastV.pg = 0 /\ LastV.off = 0
    /\ LastP.pg = 0 /\ LastP.off = 0
    /\ LastN >= HUGE_PAGE_SIZE

\* the first floor(n / 1 GiB) slots of the range hold huge leaves onto the
\* matching physical slots
LastGigaSlotsHuge ==
    \A j \in 0 .. (LastN \div HUGE_PAGE_SIZE) - 1 :
        LET e == level3_entry(Cur, AddPages(LastV, j * HUGE_PAGE_SIZE))
        IN  /\ is_present(e)
            /\ is_page(e)
            /\ e.addr = AddPages(LastP, j * HUGE_PAGE_SIZE)

\* C4 as stated: whenever map_generic is called with v and p multiples of
\* 1 GiB and n >= 1 GiB and returns Ok, the first floor(n / 1 GiB) slots of the
\* range are huge leaves, for every such v.
C4_AlignmentAnyState == LastGigaAligned => LastGigaSlotsHuge

\* C4 amended: the same, provided the range lies below 2^48 (v + n <= 2^48)
\* and the level-3 slots of those first floor(n / 1 GiB) slots were non-present
\* when the call was made (as on a fresh address space).
C4_AlignmentPreservation ==
    ( /\ LastGigaAligned
      /\ LastV.hi = 0
      /\ LastV.gb + ((LastN + HUGE_PAGE_SIZE - 1) \div HUGE_PAGE_SIZE) <= GB_SLOTS
      /\ \A j \in 0 .. (LastN \div HUGE_PAGE_SIZE) - 1 :
            ~is_present(level3_entry(PreS, AddPages(LastV, j * HUGE_PAGE_SIZE))) )
        => LastGigaSlotsHuge

\* C4 witness: a call for more than two whole 1 GiB slots on slots that were
\* free has returned Ok.
C4_Witness ==
    /\ LastGigaAligned
    /\ LastV.hi = 0
    /\ LastN > 2 * HUGE_PAGE_SIZE
    /\ \A j \in 0 .. (LastN \div HUGE_PAGE_SIZE) - 1 :
          ~is_present(level3_entry(PreS, AddPages(LastV, j * HUGE_PAGE_SIZE)))
    /\ pre.nalloc > 0

(***************************************************************************)
(* C5  Argument assertions                                                 *)
(***************************************************************************)
\* C5: a map_generic call whose pbase, size or vbase is not a multiple of
\* 4 KiB, or whose rights is None, panics, and it does so before any entry is
\* written and before any frame is drawn.
C5_ArgumentAssertions ==
    ( /\ LastGeneric
      /\ \/ LastP.off # 0
         \/ last.args.psize.off # 0
         \/ LastV.off # 0
         \/ last.args.rights = "None" )
        => (last.status = "Panic" /\ Untouched)

\* C5 witness: a call with a misaligned virtual base has panicked on an
\* address space that already holds mappings.
C5_Witness ==
    /\ LastGeneric
    /\ LastV.off # 0
    /\ last.status = "Panic"
    /\ pre.nalloc > 0

(***************************************************************************)
(* C6  Zero size                                                           *)
(***************************************************************************)
\* every present entry of s is also in t, unchanged
entries_kept(s, t) ==
    /\ \A i \in 0 .. PAGE_SIZE_ENTRIES - 1 :
          is_present(s.pml4[i]) => t.pml4[i] = s.pml4[i]
    /\ \A f \in DOMAIN s.mem :
          /\ f \in DOMAIN t.mem
          /\ \A i \in 0 .. PAGE_SIZE_ENTRIES - 1 :
                is_present(s.mem[f][i]) => t.mem[f][i] = s.mem[f][i]

\* the present entries of t that s does not hold
new_entries(s, t) ==
    {t.pml4[i] : i \in {j \in 0 .. PAGE_SIZE_ENTRIES - 1 :
                          is_present(t.pml4[j]) /\ t.pml4[j] # s.pml4[j]}}
    \cup UNION {
        {t.mem[f][i] : i \in {j \in 0 .. PAGE_SIZE_ENTRIES - 1 :
                                /\ is_present(t.mem[f][j])
                                /\ (f \in DOMAIN s.mem => t.mem[f][j] # s.mem[f][j])}}
        : f \in DOMAIN t.mem}

\* an entry that points to a table
is_table_pointer(e) == e.flags = {"P", "RW", "US"} /\ e.addr \in DOMAIN mem

\* C6 as stated: map_generic with size == 0 panics, allocates no table and
\* changes no entry.
C6_ZeroSizeRejected ==
    (LastGeneric /\ last.args.psize = Size(0, 0))
        => (last.status = "Panic" /\ Untouched)

\* C6 amended: a zero size is not rejected.  map_generic with size == 0 and
\* otherwise valid arguments installs no leaf and overwrites nothing, but it
\* does create the missing tables on the path to vbase (up to three frames),
\* and it returns Ok unless the path runs into a 1 GiB or 2 MiB leaf or the
\* provider has no frame left.
C6_ZeroSize ==
    (LastGeneric /\ LastArgsValid /\ LastN = 0)
        => /\ entries_kept(PreS, Cur)
           /\ \A e \in new_entries(PreS, Cur) : is_table_pointer(e)
           /\ nalloc - pre.nalloc <= 3
           /\ nalloc - pre.nalloc = Cardinality(new_entries(PreS, Cur))
           /\ last.status = "Panic" =>
                 \/ leaf_pages(PreS, LastV) > 1
                 \/ nalloc = MaxFrames

\* C6 witness: a zero-size call on an address space without a level-3 table
\* for vbase has returned Ok and drawn three frames.
C6_Witness ==
    /\ LastGeneric /\ LastArgsValid /\ LastN = 0
    /\ last.status = "Ok"
    /\ nalloc = pre.nalloc + 3

(***************************************************************************)
(* C7  Mapping on a fresh address space does not crash                     *)
(***************************************************************************)
\* C7: on a fresh address space, map with a 4 KiB-aligned base, a 4 KiB-aligned
\* size the tests draw (zero included), any 4 KiB-aligned physical base and
\* rights other than None returns Ok, unless the provider runs out of frames.
C7_MapDoesntCrash ==
    ( /\ last.op = "map"
      /\ pre.nalloc = 0 /\ \A i \in 0 .. PAGE_SIZE_ENTRIES - 1 : ~is_present(pre.pml4[i])
      /\ LastV.off = 0 /\ LastP.off = 0 /\ last.args.psize.off = 0
      /\ last.args.rights # "None"
      /\ LastN < TEST_SIZE_PAGES )
        => (last.status = "Ok" \/ nalloc = MaxFrames)

\* C7 witness: the largest size, started on the last page of a 1 GiB slot, has
\* been mapped, or a zero size has (three frames drawn for the tables).
C7_Witness ==
    /\ last.op = "map"
    /\ pre.nalloc = 0
    /\ last.status = "Ok"
    /\ \/ LastN = TEST_SIZE_PAGES - 1 /\ LastV = PageNo(HUGE_PAGE_SIZE - 1)
       \/ LastN = 0 /\ nalloc = 3

(***************************************************************************)
(* C8  Identity helpers                                                    *)
(***************************************************************************)
LastIdentity == last.op \in {"map_identity", "map_identity_with_offset"}

\* the map_generic call the helper stands for
IdentityV == AddAddr(last.args.at_offset, last.args.pbase)

IdentityN == SubAddr(last.args.end, last.args.pbase)

IdentityAsGeneric ==
    map_generic(PreS, IdentityV, last.args.pbase, IdentityN, last.args.rights)

\* the helper ended as that map_generic call does, with the same address space
SameAsGeneric ==
    /\ IdentityAsGeneric.status = last.status
    /\ IdentityAsGeneric.pml4 = pml4
    /\ IdentityAsGeneric.mem = mem
    /\ IdentityAsGeneric.nalloc = nalloc

present_indices(table) == {i \in 0 .. PAGE_SIZE_ENTRIES - 1 : is_present(table[i])}

\* the lowest virtual address a slot covers, under bits 48..63 = hi
slot_vaddr(hi, i4, i3, i2, i1) ==
    Addr(hi, PAGE_SIZE_ENTRIES * i4 + i3, PAGE_SIZE_ENTRIES * i2 + i1, 0)

\* byte offsets examined inside a leaf of each granularity
HugeOffsets ==
    { Size(0, 0), Size(1, 564), Size(LARGE_PAGE_SIZE + 1, 7),
      Size(HUGE_PAGE_SIZE - 1, BASE_PAGE_SIZE - 1) }

LargeOffsets == { Size(0, 0), Size(1, 564), Size(LARGE_PAGE_SIZE - 1, BASE_PAGE_SIZE - 1) }

BaseOffsets == { Size(0, 0), Size(0, 564), Size(0, BASE_PAGE_SIZE - 1) }

HiBits == { 0, HI_RANGE - 1 }

\* every address inside the leaf at the slot resolves to the leaf's address
\* plus its offset from the start of the slot
LeafResolves(slot, entry, offsets) ==
    \A o \in offsets :
        resolve_addr(Cur, AddSize(slot, o)) = Some(AddSize(entry.addr, o))

\* C9: for every present leaf of the tree (a PS entry at level 3, a PS entry at
\* level 2, a level-1 entry) and every address V inside the range of its slot,
\* aligned or not, resolve(V) = leaf.address + (V mod granularity of the leaf).
C9_ResolveGranularity ==
    \A h \in HiBits : \A i4 \in present_indices(pml4) :
      LET t3 == mem[pml4[i4].addr]
      IN  \A i3 \in present_indices(t3) :
            IF is_page(t3[i3])
            THEN LeafResolves(slot_vaddr(h, i4, i3, 0, 0), t3[i3], HugeOffsets)
            ELSE LET t2 == mem[t3[i3].addr]
                 IN  \A i2 \in present_indices(t2) :
                       IF is_page(t2[i2])
                       THEN LeafResolves(slot_vaddr(h, i4, i3, i2, 0), t2[i2], LargeOffsets)
                       ELSE LET t1 == mem[t2[i2].addr]
                            IN  \A i1 \in present_indices(t1) :
                                  LeafResolves(slot_vaddr(h, i4, i3, i2, i1), t1[i1],
                                               BaseOffsets)

\* C9 witness: an unaligned address inside a 1 GiB leaf has been resolved, in
\* an address space that also holds a 2 MiB leaf.
C9_Witness ==
    /\ last.op = "resolve_addr"
    /\ last.result # None
    /\ last.args.vbase.off # 0
    /\ last.args.vbase.pg > LARGE_PAGE_SIZE
    /\ leaf_pages(Cur, last.args.vbase) = HUGE_PAGE_SIZE
    /\ leaf_pages(Cur, PageAddr(0, 1)) = LARGE_PAGE_SIZE

(***************************************************************************)
(* C10  Resolution is a pure read and reports misses as absent             *)
(***************************************************************************)
\* the address space is as VSpace::new() left it
Fresh == nalloc = 0 /\ \A i \in 0 .. PAGE_SIZE_ENTRIES - 1 : ~is_present(pml4[i])

\* C10: resolve returns None exactly when an entry on the walk for the address
\* is non-present, so for every address of a fresh address space; and a
\* resolve call changes no entry and draws no frame.
C10_ResolvePure ==
    /\ \A a \in Probes : (resolve_addr(Cur, a) = None) <=> (leaf_pages(Cur, a) = 0)
    /\ Fresh => \A a \in Probes : resolve_addr(Cur, a) = None
    /\ last.op = "resolve_addr" =>
          /\ Untouched
          /\ (last.result = None) <=> (leaf_pages(Cur, last.args.vbase) = 0)

\* C10 witness: resolve has missed on an address whose level-1 table exists
\* but whose level-1 entry is non-present.
C10_Witness ==
    /\ last.op = "resolve_addr"
    /\ last.result = None
    /\ ~Fresh
    /\ LET a  == last.args.vbase
           e4 == pml4[pml4_index(a)]
       IN  /\ is_present(e4)
           /\ is_present(mem[e4.addr][pdpt_index(a)])
           /\ ~is_page(mem[e4.addr][pdpt_index(a)])
           /\ is_present(mem[mem[e4.addr][pdpt_index(a)].addr][pd_index(a)])
           /\ ~is_page(mem[mem[e4.addr][pdpt_index(a)].addr][pd_index(a)])

(***************************************************************************)
(* C11  map_frames places the frames contiguously and in list order        *)
(***************************************************************************)
\* the latest call found the address space as VSpace::new() leaves it
PreFresh ==
    pre.nalloc = 0 /\ \A i \in 0 .. PAGE_SIZE_ENTRIES - 1 : ~is_present(pre.pml4[i])

LastFrames == last.args.frames

\* the leaf entry that backs addr, EmptyEntry if none
leaf_entry(s, addr) ==
    LET e4 == s.pml4[pml4_index(addr)]
    IN  IF ~is_present(e4) THEN EmptyEntry
        ELSE LET e3 == s.mem[e4.addr][pdpt_index(addr)]
             IN  IF ~is_present(e3) \/ is_page(e3) THEN e3
                 ELSE LET e2 == s.mem[e3.addr][pd_index(addr)]
                      IN  IF ~is_present(e2) \/ is_page(e2) THEN e2
                          ELSE s.mem[e2.addr][pt_index(addr)]

\* the virtual address the k-th frame of the latest map_frames call belongs at
FrameV(k) == AddPages(LastV, pages_before(LastFrames, k))

\* C11: after map_frames(base, [(F_1,r_1), ..]) has returned Ok on a fresh
\* address space, every page j of every frame F_k resolves at
\* base + sum of size(F_i), i < k, + j to F_k.base + j, and the leaf there
\* carries the flags of r_k.
C11_FramesContiguous ==
    (last.op = "map_frames" /\ PreFresh /\ last.status = "Ok") =>
        \A k \in 1 .. Len(LastFrames) :
            /\ \A j \in PageOffsets(LastFrames[k][1].size.pg) :
                  resolve_addr(Cur, AddPages(FrameV(k), j))
                      = Some(AddPages(LastFrames[k][1].base, j))
            /\ leaf_entry(Cur, FrameV(k)).flags \ {"P", "PS"}
                  = to_rights(LastFrames[k][2])

\* C11 witness: a list of frames of different sizes and rights has been mapped
\* on a fresh address space, the second frame as a 2 MiB stretch that starts
\* one page after a 2 MiB boundary.
C11_Witness ==
    /\ last.op = "map_frames"
    /\ PreFresh
    /\ last.status = "Ok"
    /\ Len(LastFrames) = 2
    /\ LastFrames[1][1].size.pg = 1
    /\ LastFrames[2][1].size.pg = LARGE_PAGE_SIZE
    /\ LastFrames[1][2] # LastFrames[2][2]
    /\ resolve_addr(Cur, AddPages(LastV, LARGE_PAGE_SIZE))
          = Some(AddPages(LastFrames[2][1].base, LARGE_PAGE_SIZE - 1))

(***************************************************************************)
(* C12  map_frames checks alignment against the first frame only           *)
(***************************************************************************)
\* every frame of the latest map_frames call has a page-aligned base, a size
\* of at least one page and rights other than None
LastFramesValid ==
    \A k \in 1 .. Len(LastFrames) :
        /\ LastFrames[k][1].base.off = 0
        /\ LastFrames[k][1].size.pg > 0
        /\ LastFrames[k][2] # "None"

\* the k-th frame is placed at an address that is no multiple of its size
PlacedUnaligned(k) == ~is_multiple_of(FrameV(k), LastFrames[k][1].size.pg)

\* C12: map_frames panics with the address space untouched when the list is
\* empty or base is no multiple of the first frame's size; otherwise, on a
\* fresh address space and with valid frames, it returns Ok and maps every
\* later frame, also one placed at an address that is no multiple of its size.
C12_FirstFrameOnly ==
    last.op = "map_frames" =>
        /\ (Len(LastFrames) = 0 \/ PlacedUnaligned(1))
              => (last.status = "Panic" /\ Untouched)
        /\ ( /\ Len(LastFrames) > 0
             /\ ~PlacedUnaligned(1)
             /\ LastFramesValid
             /\ PreFresh )
              => /\ last.status = "Ok"
                 /\ \A k \in 2 .. Len(LastFrames) :
                       resolve_addr(Cur, FrameV(k)) = Some(LastFrames[k][1].base)

\* C12 witness: a 2 MiB frame placed one page after a 2 MiB boundary, behind a
\* 4 KiB frame, has been mapped and the call has returned Ok.
C12_Witness ==
    /\ last.op = "map_frames"
    /\ last.status = "Ok"
    /\ PreFresh
    /\ Len(LastFrames) = 2
    /\ PlacedUnaligned(2)
    /\ leaf_pages(Cur, FrameV(2)) = 1

(***************************************************************************)
(* C13  Permission projection                                              *)
(***************************************************************************)
\* the table an entry leads to: the frame's content, an empty table when the
\* address is not that of a frame drawn from the provider
table_at(s, addr) == IF addr \in DOMAIN s.mem THEN s.mem[addr] ELSE ZeroTable

\* the leaves of an address space: level (3, 2 or 1), slot indices and entry
leaves_pt(s, pt, i4, i3, i2) ==
    { [level |-> 1, slot |-> <<i4, i3, i2, i1>>, entry |-> table_at(s, pt)[i1]] :
        i1 \in present_indices(table_at(s, pt)) }

leaves_pd(s, pd, i4, i3) ==
    UNION { IF is_page(table_at(s, pd)[i2])
            THEN { [level |-> 2, slot |-> <<i4, i3, i2, 0>>, entry |-> table_at(s, pd)[i2]] }
            ELSE leaves_pt(s, table_at(s, pd)[i2].addr, i4, i3, i2) :
            i2 \in present_indices(table_at(s, pd)) }

leaves_pdpt(s, pdpt, i4) ==
    UNION { IF is_page(table_at(s, pdpt)[i3])
            THEN { [level |-> 3, slot |-> <<i4, i3, 0, 0>>, entry |-> table_at(s, pdpt)[i3]] }
            ELSE leaves_pd(s, table_at(s, pdpt)[i3].addr, i4, i3) :
            i3 \in present_indices(table_at(s, pdpt)) }

Leaves(s) ==
    UNION { leaves_pdpt(s, s.pml4[i4].addr, i4) : i4 \in present_indices(s.pml4) }

\* the MapAction names that contain Write, end in User, contain Execute
WriteActions ==
    {"ReadWriteUser", "ReadWriteKernel", "ReadWriteExecuteUser", "ReadWriteExecuteKernel"}

UserActions == {"ReadUser", "ReadWriteUser", "ReadExecuteUser", "ReadWriteExecuteUser"}

ExecuteActions ==
    {"ReadExecuteUser", "ReadExecuteKernel", "ReadWriteExecuteUser",
     "ReadWriteExecuteKernel"}

\* C13: every leaf a map_generic call with a MapAction other than None
\* installs on a fresh address space, at level 3, 2 or 1, has P set, RW set
\* iff the action's name contains Write, US set iff it ends in User and XD set
\* iff it does not contain Execute.
C13_PermissionProjection ==
    (last.op = "map_generic" /\ PreFresh) =>
        \A l \in Leaves(Cur) :
            /\ "P" \in l.entry.flags
            /\ "RW" \in l.entry.flags <=> last.args.rights \in WriteActions
            /\ "US" \in l.entry.flags <=> last.args.rights \in UserActions
            /\ "XD" \in l.entry.flags <=> last.args.rights \notin ExecuteActions

\* C13 witness: one ReadExecuteUser call has installed leaves at all three
\* levels.
C13_Witness ==
    /\ last.op = "map_generic"
    /\ PreFresh
    /\ last.status = "Ok"
    /\ last.args.rights = "ReadExecuteUser"
    /\ {l.level : l \in Leaves(Cur)} = {1, 2, 3}

(***************************************************************************)
(* C14  Non-overlap invariant                                              *)
(***************************************************************************)
\* the entries of an address space that point to a lower table
pointers_pd(s, pd, i4, i3) ==
    { [level |-> 2, slot |-> <<i4, i3, i2>>, addr |-> table_at(s, pd)[i2].addr] :
        i2 \in {i \in present_indices(table_at(s, pd)) : ~is_page(table_at(s, pd)[i])} }

pointers_pdpt(s, pdpt, i4) ==
    LET down == {i \in present_indices(table_at(s, pdpt)) : ~is_page(table_at(s, pdpt)[i])}
    IN  { [level |-> 3, slot |-> <<i4, i3>>, addr |-> table_at(s, pdpt)[i3].addr] :
            i3 \in down }
        \cup UNION { pointers_pd(s, table_at(s, pdpt)[i3].addr, i4, i3) : i3 \in down }

TablePointers(s) ==
    { [level |-> 4, slot |-> <<i4>>, addr |-> s.pml4[i4].addr] :
        i4 \in present_indices(s.pml4) }
    \cup UNION { pointers_pdpt(s, s.pml4[i4].addr, i4) : i4 \in present_indices(s.pml4) }

\* C14: in every reachable state the tables form a tree: every table pointer
\* leads to a frame drawn from the provider, no table is reached through two
\* entries, every frame drawn is a table of the tree (none is left under an
\* entry that became a leaf), and no call replaces a present entry, so each
\* virtual address has one path and at most one leaf on it.
C14_NonOverlap ==
    /\ \A p \in TablePointers(Cur) : p.addr \in DOMAIN mem
    /\ Cardinality({p.addr : p \in TablePointers(Cur)}) = Cardinality(TablePointers(Cur))
    /\ Cardinality(TablePointers(Cur)) = nalloc
    /\ \A l \in Leaves(Cur) : l.level > 1 <=> is_page(l.entry)
    /\ entries_kept(PreS, Cur)

\* C14 witness: two map calls have left leaves of all three sizes under five
\* or more tables.
C14_Witness ==
    /\ ncalls = 2
    /\ {l.level : l \in Leaves(Cur)} = {1, 2, 3}
    /\ nalloc >= 5

(***************************************************************************)
(* C15  Leaf alignment invariant                                           *)
(***************************************************************************)
\* pages a leaf of the level covers
leaf_size(level) ==
    IF level = 3 THEN HUGE_PAGE_SIZE ELSE IF level = 2 THEN LARGE_PAGE_SIZE ELSE 1

\* the first virtual address of a leaf, in the bit field 48..63 of the
\* latest call's base
LeafV(l) == slot_vaddr(LastV.hi, l.slot[1], l.slot[2], l.slot[3], l.slot[4])

\* the leaves the latest call installed
NewLeaves == Leaves(Cur) \ Leaves(PreS)

\* C15: in every reachable state every 1 GiB leaf holds a physical address
\* that is a multiple of 1 GiB and every 2 MiB leaf one that is a multiple of
\* 2 MiB; and every leaf a map_generic or map call installs lies, whole, in
\* the range [vbase, vbase + size) of the call.
C15_LeafAlignment ==
    /\ \A l \in Leaves(Cur) :
          /\ l.entry.addr.off = 0
          /\ l.level = 3 => l.entry.addr.pg = 0
          /\ l.level = 2 => l.entry.addr.pg % LARGE_PAGE_SIZE = 0
    /\ last.op \in {"map_generic", "map"} =>
          \A l \in NewLeaves :
              /\ ~AddrGT(LastV, LeafV(l))
              /\ ~AddrGT(AddPages(LeafV(l), leaf_size(l.level)), AddPages(LastV, LastN))

\* C15 witness: a call for a size that is no multiple of 1 GiB has installed
\* 1 GiB leaves and has mapped the rest with smaller leaves.
C15_Witness ==
    /\ last.op = "map_generic"
    /\ last.status = "Ok"
    /\ LastN % HUGE_PAGE_SIZE # 0
    /\ \E l \in NewLeaves : l.level = 3
    /\ \E l \in NewLeaves : l.level < 3

(***************************************************************************)
(* C16  A new address space is empty                                       *)
(***************************************************************************)
\* C16: right after VSpace::new() the root table has 512 entries, all of them
\* non-present, and no frame has been drawn from the provider.
C16_NewIsEmpty ==
    last.op = "new" =>
        /\ DOMAIN pml4 = 0 .. PAGE_SIZE_ENTRIES - 1
        /\ Cardinality(DOMAIN pml4) = 512
        /\ \A i \in DOMAIN pml4 : ~is_present(pml4[i])
        /\ nalloc = 0
        /\ DOMAIN mem = {}

\* C16 witness: the address space as VSpace::new() returned it, before any
\* other call.
C16_Witness == last.op = "new" /\ ncalls = 0 /\ Leaves(Cur) = {}

(***************************************************************************)
(* C17  No map operation returns an error value                            *)
(***************************************************************************)
\* the latest map_generic call needs a level-3 table and the provider has no
\* frame left
NeedsTableFromEmptyProvider ==
    /\ LastGeneric
    /\ LastArgsValid
    /\ ~is_present(pre.pml4[pml4_index(LastV)])
    /\ pre.nalloc = MaxFrames

\* C17: every call ends with Ok(()) or in a panic, never with an Err value;
\* a map_generic call that needs a table when the provider has no frame left
\* panics, with the address space as it was.
C17_NoErrValue ==
    /\ last.status \in {"Ok", "Panic"}
    /\ NeedsTableFromEmptyProvider => (last.status = "Panic" /\ Untouched)

\* C17 witness: map_generic has panicked for want of a frame for a level-3
\* table.
C17_Witness == NeedsTableFromEmptyProvider /\ last.status = "Panic"

(***************************************************************************)
(* C18  KCB installation ordering                                          *)
(***************************************************************************)
\* C18: before init_kcb has run, try_get_kcb returns None and get_kcb panics
\* (and so do the callers of get_kcb); after init_kcb(kcb), try_get_kcb and
\* get_kcb return that KCB, and GS base and IA32_KERNEL_GSBASE both hold its
\* address, so that GS base still holds it after a swapgs.
C18_KcbOrdering ==
    /\ installed = NullKcb =>
          /\ last.op = "try_get_kcb" => last.result = None
          /\ last.op = "get_kcb" => last.status = "Panic"
          /\ last.op \in {"map_identity", "map_identity_with_offset"}
                => (last.status = "Panic" /\ Untouched)
    /\ installed # NullKcb =>
          /\ last.op \in {"try_get_kcb", "get_kcb"}
                => (last.status = "Ok" /\ last.result = Some(installed))
          /\ gs_base = installed
          /\ kernel_gs_base = installed
          /\ swapgs(Regs).gs_base = installed
    /\ last.op = "init_kcb" => installed = last.args.kcb

\* C18 witness: get_kcb has returned the KCB that init_kcb installed.
C18_Witness ==
    /\ last.op = "get_kcb"
    /\ last.status = "Ok"
    /\ installed # NullKcb
    /\ last.result = Some(installed)

(***************************************************************************)
(* C19  Greedy granularity                                                 *)
(***************************************************************************)
\* the latest call is one valid map_generic call on a fresh address space for
\* a range that ends at or below 2^48
FreshLowCall ==
    /\ LastGeneric
    /\ PreFresh
    /\ LastArgsValid
    /\ LastV.hi = 0
    /\ AddPages(LastV, LastN).hi = 0 \/ AddPages(LastV, LastN) = Addr(1, 0, 0, 0)

\* offset of a leaf in the range of the latest call, in pages
LeafOffset(l) == SubAddr(LeafV(l), LastV).pg

\* a leaf of `pages` pages would fit at offset k of the latest call
FitsAt(k, pages) ==
    /\ AddPages(LastV, k).pg % pages = 0
    /\ AddPages(LastP, k).pg % pages = 0
    /\ LastN - k >= pages

\* C19: after one map_generic call on a fresh address space, for a range that
\* ends at or below 2^48, no 4 KiB leaf sits at an offset where a 2 MiB leaf
\* would fit and no 4 KiB or 2 MiB leaf at an offset where a 1 GiB leaf would.
C19_GreedyGranularity ==
    FreshLowCall =>
        \A l \in Leaves(Cur) :
            /\ l.level = 1 => ~FitsAt(LeafOffset(l), LARGE_PAGE_SIZE)
            /\ l.level < 3 => ~FitsAt(LeafOffset(l), HUGE_PAGE_SIZE)

\* C19 witness: one call on a fresh address space has installed 1 GiB leaves
\* and, for the rest of its range, a 4 KiB leaf.
C19_Witness ==
    /\ FreshLowCall
    /\ last.status = "Ok"
    /\ {l.level : l \in Leaves(Cur)} = {1, 3}

(***************************************************************************)
(* C20  Scenario S4: ragged map                                            *)
(***************************************************************************)
\* map_generic(0x1000, (0x1000, 0x20_2000), ReadWriteKernel) on a fresh
\* address space: 0x20_2000 bytes are LARGE_PAGE_SIZE + 2 pages
S4Call ==
    /\ LastGeneric
    /\ PreFresh
    /\ LastV = PageAddr(0, 1)
    /\ LastP = PageAddr(0, 1)
    /\ last.args.psize = Size(LARGE_PAGE_SIZE + 2, 0)
    /\ last.args.rights = RWK

\* the leaves of the given level under slot i2 of the level-2 table of
\* address 0
S4Leaves(level, i2) ==
    {l \in Leaves(Cur) : l.level = level /\ l.slot[1] = 0 /\ l.slot[2] = 0 /\ l.slot[3] = i2}

\* C20 as stated: the call installs 0x1FF 4 KiB leaves in a level-1 table up
\* to the 2 MiB boundary, then one 2 MiB leaf, then two 4 KiB leaves in
\* another level-1 table.
C20_RaggedAsStated ==
    S4Call =>
        /\ last.status = "Ok"
        /\ Cardinality(S4Leaves(1, 0)) = LARGE_PAGE_SIZE - 1
        /\ Cardinality({l \in Leaves(Cur) : l.level = 2}) = 1
        /\ \E i2 \in 2 .. PAGE_SIZE_ENTRIES - 1 : Cardinality(S4Leaves(1, i2)) = 2

\* C20 amended: the call installs 0x1FF 4 KiB leaves at indices 1..511 of the
\* level-1 table of level-2 slot 0 and the remaining three pages as 4 KiB
\* leaves at indices 0..2 of a second level-1 table, under level-2 slot 1; it
\* installs no 2 MiB leaf, draws four frames and maps every page to itself.
C20_Ragged ==
    S4Call =>
        /\ last.status = "Ok"
        /\ {l.slot : l \in Leaves(Cur)}
              = {<<0, 0, 0, i1>> : i1 \in 1 .. PAGE_SIZE_ENTRIES - 1}
                \cup {<<0, 0, 1, i1>> : i1 \in 0 .. 2}
        /\ \A l \in Leaves(Cur) :
              /\ l.level = 1
              /\ l.entry = base_leaf(PageAddr(0, PAGE_SIZE_ENTRIES * l.slot[3] + l.slot[4]), RWK)
        /\ nalloc = 4

\* C20 witness: the S4 call has returned Ok with its last page mapped through
\* the second level-1 table.
C20_Witness ==
    /\ S4Call
    /\ last.status = "Ok"
    /\ resolve_addr(Cur, PageAddr(0, LARGE_PAGE_SIZE + 2)) = Some(PageAddr(0, LARGE_PAGE_SIZE + 2))
    /\ leaf_pages(Cur, PageAddr(0, LARGE_PAGE_SIZE + 2)) = 1

(***************************************************************************)
(* C21  Scenario S2: 2 MiB map                                             *)
(***************************************************************************)
\* map_generic(0x0, (0x20_0000, 0x20_0000), ReadUser) on a fresh address space
S2Call ==
    /\ LastGeneric
    /\ PreFresh
    /\ LastV = PageAddr(0, 0)
    /\ LastP = PageAddr(0, LARGE_PAGE_SIZE)
    /\ last.args.psize = Size(LARGE_PAGE_SIZE, 0)
    /\ last.args.rights = "ReadUser"

\* the call left exactly one leaf, a large one at index i2 of the level-2
\* table of address 0, with flags {P, PS, US, XD}, and drew no frame for a
\* level-1 table
S2Layout(i2) ==
    /\ last.status = "Ok"
    /\ Leaves(Cur) = { [level |-> 2, slot |-> <<0, 0, i2, 0>>,
                        entry |-> Entry(PageAddr(0, LARGE_PAGE_SIZE),
                                        {"P", "PS", "US", "XD"})] }
    /\ {p.level : p \in TablePointers(Cur)} = {4, 3}
    /\ nalloc = 2

\* C21 as stated: S2 installs exactly one large leaf, at level-2 index 1, with
\* flags {P, PS, US, NX} and no W, and allocates no level-1 table.
C21_S2AsStated == S2Call => S2Layout(1)

\* C21 amended: S2 installs exactly one large leaf, at level-2 index
\* pd_index(V) = 0, with flags {P, PS, US, NX} and no W, and allocates no
\* level-1 table (two frames are drawn, for the level-3 and level-2 tables).
C21_S2LargeMap == S2Call => S2Layout(pd_index(LastV)) /\ pd_index(LastV) = 0

\* C21 witness: the S2 call has returned Ok and address 0x1000 resolves
\* through the large leaf.
C21_Witness ==
    /\ S2Call
    /\ last.status = "Ok"
    /\ leaf_pages(Cur, PageAddr(0, 1)) = LARGE_PAGE_SIZE
    /\ resolve_addr(Cur, PageAddr(0, 1)) = Some(PageAddr(0, LARGE_PAGE_SIZE + 1))

(***************************************************************************)
(* C22  Scenario S3: 1 GiB map                                             *)
(***************************************************************************)
\* map_generic(0x4000_0000, (0x4000_0000, 0x4000_0000), ReadWriteExecuteKernel)
\* on a fresh address space
S3Call ==
    /\ LastGeneric
    /\ PreFresh
    /\ LastV = PageAddr(1, 0)
    /\ LastP = PageAddr(1, 0)
    /\ last.args.psize = Size(HUGE_PAGE_SIZE, 0)
    /\ last.args.rights = "ReadWriteExecuteKernel"

\* C22: S3 installs exactly one huge leaf, at level-3 index pdpt_index(V) = 1,
\* with flags {P, PS, RW} (neither US nor XD); it draws exactly one frame, the
\* level-3 table, and creates no level-2 or level-1 table.
C22_S3HugeMap ==
    S3Call =>
        /\ last.status = "Ok"
        /\ pdpt_index(LastV) = 1
        /\ Leaves(Cur) = { [level |-> 3, slot |-> <<0, pdpt_index(LastV), 0, 0>>,
                            entry |-> Entry(PageAddr(1, 0), {"P", "PS", "RW"})] }
        /\ nalloc = 1
        /\ {p.level : p \in TablePointers(Cur)} = {4}
        /\ DOMAIN mem = {pml4[0].addr}

\* C22 witness: the S3 call has returned Ok and an address inside the GiB
\* resolves through the huge leaf.
C22_Witness ==
    /\ S3Call
    /\ last.status = "Ok"
    /\ leaf_pages(Cur, PageAddr(1, LARGE_PAGE_SIZE + 3)) = HUGE_PAGE_SIZE
    /\ resolve_addr(Cur, PageAddr(1, LARGE_PAGE_SIZE + 3)) = Some(PageAddr(1, LARGE_PAGE_SIZE + 3))

(***************************************************************************)
(* C23  Leaf conflict is fatal                                             *)
(***************************************************************************)
\* map_generic calls that meet leaves and tables left by one another
ConflictRequests ==
    { Req(PageAddr(0, 0), PageAddr(0, LARGE_PAGE_SIZE), Size(LARGE_PAGE_SIZE, 0), "ReadUser"),
      Req(PageAddr(0, 1), PageAddr(0, 1), Size(1, 0), RWK),
      Req(PageAddr(1, 0), PageAddr(1, 0), Size(HUGE_PAGE_SIZE, 0), "ReadWriteExecuteKernel"),
      Req(PageAddr(1, 1), PageAddr(0, 7), Size(1, 0), RWK),
      Req(PageAddr(0, 2 * LARGE_PAGE_SIZE), PageAddr(0, 3), Size(LARGE_PAGE_SIZE, 0), RWK),
      Req(PageAddr(0, LARGE_PAGE_SIZE), PageAddr(0, LARGE_PAGE_SIZE),
          Size(2 * LARGE_PAGE_SIZE, 0), RWK),
      Req(PageAddr(0, 0), PageAddr(0, 0), Size(2 * HUGE_PAGE_SIZE, 0), RWK),
      Req(PageAddr(0, LARGE_PAGE_SIZE - 1), PageAddr(0, 5 * LARGE_PAGE_SIZE - 1), Size(3, 0), RWK),
      Req(PageAddr(0, 0), PageAddr(0, 0), Size(0, 0), RWK),
      Req(PageAddr(2, 0), PageAddr(2, 0), Size(HUGE_PAGE_SIZE + LARGE_PAGE_SIZE, 0), "ReadUser"),
      Req(PageAddr(2, 5), PageAddr(2, 5), Size(1, 0), RWK),
      Req(PageAddr(1, 0), PageAddr(4, 0), Size(2 * HUGE_PAGE_SIZE, 0), "ReadUser"),
      Req(PageAddr(0, LARGE_PAGE_SIZE - 1), PageAddr(0, LARGE_PAGE_SIZE - 1),
          Size(LARGE_PAGE_SIZE + 1, 0), RWK),
      Req(PageAddr(0, 0), PageAddr(0, 8), Size(4, 0), "ReadUser") }

NextConflict == \E q \in ConflictRequests : MapGeneric(q)

SpecConflict == Init /\ [][NextConflict]_vars

\* the level-3 and level-2 tables the base of the latest call lay under when
\* the call began; a table of non-present entries where there was none
PrePdpt ==
    IF is_present(pre.pml4[pml4_index(LastV)])
    THEN table_at(PreS, pre.pml4[pml4_index(LastV)].addr)
    ELSE ZeroTable

PrePd ==
    IF is_present(PrePdpt[pdpt_index(LastV)]) /\ ~is_page(PrePdpt[pdpt_index(LastV)])
    THEN table_at(PreS, PrePdpt[pdpt_index(LastV)].addr)
    ELSE ZeroTable

\* a page of the range, or the base itself, lay under a large or huge leaf
LeafConflict ==
    \E k \in PageOffsets(LastN) \cup {0} :
        leaf_pages(PreS, AddPages(LastV, k)) \in {LARGE_PAGE_SIZE, HUGE_PAGE_SIZE}

\* the call starts on the 1 GiB path and a later slot of its run is present
HugePathClash ==
    /\ LastArgsValid
    /\ LastV.hi = 0 /\ LastV.pg = 0 /\ LastP.pg = 0
    /\ LastN >= HUGE_PAGE_SIZE
    /\ ~is_present(PrePdpt[pdpt_index(LastV)])
    /\ \E i \in pdpt_index(LastV) + 1 .. PAGE_SIZE_ENTRIES - 1 :
          /\ i < pdpt_index(LastV) + LastN \div HUGE_PAGE_SIZE
          /\ is_present(PrePdpt[i])

\* the call starts on the 2 MiB path and a later slot of its run is present
LargePathClash ==
    /\ LastArgsValid
    /\ LastV.hi = 0 /\ LastV.pg % LARGE_PAGE_SIZE = 0 /\ LastP.pg % LARGE_PAGE_SIZE = 0
    /\ LastN >= LARGE_PAGE_SIZE
    /\ is_present(PrePdpt[pdpt_index(LastV)])
    /\ ~is_present(PrePd[pd_index(LastV)])
    /\ \E i \in pd_index(LastV) + 1 .. PAGE_SIZE_ENTRIES - 1 :
          /\ i < pd_index(LastV) + LastN \div LARGE_PAGE_SIZE
          /\ is_present(PrePd[i])

\* C23: a map_generic call that has to descend through, or put a leaf into, a
\* level-3 or level-2 slot holding a huge or large leaf, or whose 1 GiB or
\* 2 MiB run meets any present slot, panics; every entry that was present
\* before the call, the leaf included, is still what it was.
C23_LeafConflictFatal ==
    (LastGeneric /\ (LeafConflict \/ HugePathClash \/ LargePathClash)) =>
        /\ last.status = "Panic"
        /\ entries_kept(PreS, Cur)

\* C23 witness: a call has panicked on a large leaf that an earlier call
\* installed, after mapping the page before it.
C23_Witness ==
    /\ LastGeneric
    /\ last.status = "Panic"
    /\ leaf_pages(PreS, AddPages(LastV, 1)) = LARGE_PAGE_SIZE
    /\ leaf_pages(PreS, LastV) = 0
    /\ leaf_pages(Cur, LastV) = 1

(***************************************************************************)
(* C24  4 KiB overlap is tolerated                                         *)
(***************************************************************************)
\* a page of the range of the latest call was backed by a 4 KiB leaf
Overlap4K ==
    \E k \in PageOffsets(LastN) : leaf_pages(PreS, AddPages(LastV, k)) = 1

\* a level-3 or level-2 slot that held a table pointer covers a stretch that
\* begins after the base of the latest call and lies whole inside its range
TableInRun ==
    \E p \in TablePointers(PreS) :
        /\ p.level \in {3, 2}
        /\ LET start == IF p.level = 3 THEN slot_vaddr(0, p.slot[1], p.slot[2], 0, 0)
                        ELSE slot_vaddr(0, p.slot[1], p.slot[2], p.slot[3], 0)
               pages == IF p.level = 3 THEN HUGE_PAGE_SIZE ELSE LARGE_PAGE_SIZE
           IN  /\ LastV.hi = 0
               /\ AddrGT(start, LastV)
               /\ SubAddr(start, LastV).pg + pages <= LastN

\* the 4 KiB leaves of the range are what they were, entry for entry
OverlapIntact ==
    \A k \in PageOffsets(LastN) :
        leaf_pages(PreS, AddPages(LastV, k)) = 1 =>
            leaf_entry(Cur, AddPages(LastV, k)) = leaf_entry(PreS, AddPages(LastV, k))

\* the pages of the range that had no leaf are mapped as the call asked
RestMapped ==
    \A k \in PageOffsets(LastN) :
        leaf_pages(PreS, AddPages(LastV, k)) = 0 =>
            /\ resolve_addr(Cur, AddPages(LastV, k)) = Some(AddPages(LastP, k))
            /\ leaf_entry(Cur, AddPages(LastV, k)).flags
                  \subseteq {"P", "PS"} \cup to_pt_rights(last.args.rights)

CurNext == [pml4 |-> pml4', mem |-> mem', nalloc |-> nalloc', status |-> "Ok",
            gs_base |-> gs_base', depth |-> 0, visited |-> 0]

\* C25: no step of any map_* call, whether it returns Ok or panics, changes
\* an entry that is present, in the root table or in any frame that holds a
\* table: neither its address nor its flags.  So a table pointer never
\* becomes a leaf, a leaf never becomes a table pointer or another leaf, and
\* the permissions of a mapped page never change.
C25_WriteOnce == [][entries_kept(Cur, CurNext)]_vars

\* C25 witness: a ReadWriteKernel call has returned Ok over a page that was
\* mapped read-only to a different physical address; the page is not writable
\* and still resolves to the earlier address.
C25_Witness ==
    /\ LastGeneric
    /\ last.status = "Ok"
    /\ last.args.rights = RWK
    /\ LastN > 0
    /\ leaf_pages(PreS, LastV) = 1
    /\ "RW" \notin leaf_entry(Cur, LastV).flags
    /\ resolve_addr(Cur, LastV) # Some(LastP)

(***************************************************************************)
(* C26  Table-boundary crossing                                            *)
(***************************************************************************)
\* map_generic calls whose range runs over the end of a level-1, level-2 or
\* level-3 table, on a new address space or after a call that has created a
\* table next to the boundary
CrossingBases ==
    { PageAddr(0, 1), PageAddr(0, LARGE_PAGE_SIZE - 1), PageAddr(0, HUGE_PAGE_SIZE - 1),
      PageAddr(0, HUGE_PAGE_SIZE - LARGE_PAGE_SIZE),
      PageAddr(PAGE_SIZE_ENTRIES - 1, HUGE_PAGE_SIZE - 1),
      PageAddr(PAGE_SIZE_ENTRIES - 1, 0) }

CrossingSizes ==
    { 2, 3, LARGE_PAGE_SIZE + 2, 2 * LARGE_PAGE_SIZE, HUGE_PAGE_SIZE + LARGE_PAGE_SIZE + 1,
      2 * HUGE_PAGE_SIZE, 5 * LARGE_PAGE_SIZE }

\* pages between the virtual and the physical base
CrossingShifts == { 0, 3 }

NeighbourRequests ==
    { Req(PageAddr(0, LARGE_PAGE_SIZE + 5), PageAddr(0, 77), Size(1, 0), "ReadUser"),
      Req(PageAddr(1, LARGE_PAGE_SIZE + 5), PageAddr(0, 78), Size(1, 0), "ReadUser"),
      Req(PageAddr(PAGE_SIZE_ENTRIES, LARGE_PAGE_SIZE + 5), PageAddr(0, 79), Size(1, 0),
          "ReadUser") }

MapNeighbour ==
    /\ ncalls = 0
    /\ \E q \in NeighbourRequests : MapGeneric(q)

MapCrossing ==
    /\ ncalls = 0 \/ Req(LastV, LastP, last.args.psize, last.args.rights) \in NeighbourRequests
    /\ \E base \in CrossingBases, size \in CrossingSizes, shift \in CrossingShifts :
          MapGeneric(Req(base, AddPages(base, shift), Size(size, 0), RWK))

NextCrossing == MapNeighbour \/ MapCrossing

SpecCrossing == Init /\ [][NextCrossing]_vars

\* the leaf lies in the range of the latest call
InRange(l) ==
    /\ ~AddrGT(LastV, LeafV(l))
    /\ LeafOffset(l) + leaf_size(l.level) <= LastN

\* the pages the leaves of the set cover
PagesCovered(leaves) ==
    Cardinality({l \in leaves : l.level = 1})
    + LARGE_PAGE_SIZE * Cardinality({l \in leaves : l.level = 2})
    + HUGE_PAGE_SIZE * Cardinality({l \in leaves : l.level = 3})

\* the latest call is a valid map_generic call that has returned Ok for a
\* range that does not run over a multiple of 2^48
LowOkCall ==
    /\ LastGeneric
    /\ LastArgsValid
    /\ last.status = "Ok"
    /\ AddPages(LastV, LastN).hi = LastV.hi

\* the leaves that lay in the range before the call
LeavesInRangeBefore ==
    {l \in Leaves(PreS) : ~AddrGT(LastV, LeafV(l)) /\ AddrGT(AddPages(LastV, LastN), LeafV(l))}

\* the range of the latest call runs over the end of a level-1 table
CrossesTable == pt_index(LastV) + LastN > PAGE_SIZE_ENTRIES

\* C26: a map_generic call that returns Ok has carried the mapping over every
\* table boundary in its range: each leaf it installed lies in the range and
\* maps its offset in the range to the same offset from pbase, and these
\* leaves and the 4 KiB leaves the range already had cover as many pages as
\* the range has, so no page is skipped or mapped twice; the tables the range
\* enters are those that existed plus as many new ones as the provider handed
\* out.
C26_BoundaryCrossing ==
    LowOkCall =>
        /\ \A l \in NewLeaves :
              /\ InRange(l)
              /\ l.entry.addr = AddPages(LastP, LeafOffset(l))
        /\ \A l \in LeavesInRangeBefore : l.level = 1
        /\ PagesCovered(NewLeaves) + Cardinality(LeavesInRangeBefore) = LastN
        /\ Cardinality(TablePointers(Cur)) - Cardinality(TablePointers(PreS))
              = nalloc - pre.nalloc

\* C26 witness: a call has run from the last slot of one level-1 table into
\* slot 0 of a level-1 table that an earlier call had created, and has left
\* the earlier leaf of that table alone.
C26_Witness ==
    /\ LowOkCall
    /\ CrossesTable
    /\ ncalls = 2
    /\ nalloc - pre.nalloc = 1
    /\ leaf_pages(PreS, PageAddr(0, LARGE_PAGE_SIZE + 5)) = 1
    /\ leaf_pages(Cur, PageAddr(0, LARGE_PAGE_SIZE)) = 1
    /\ resolve_addr(Cur, PageAddr(0, LARGE_PAGE_SIZE)) = Some(AddPages(LastP, 1))

(***************************************************************************)
(* C27  Depth of the recursion                                             *)
(***************************************************************************)
\* C27: no map_generic call reaches more than three nested invocations of
\* map_generic by itself.
C27_DepthBounded == LastGeneric => last.depth <= 3

(***************************************************************************)
(* C28  Termination                                                        *)
(***************************************************************************)
\* C28: every map_generic call ends, with Ok or a panic: no pass of it calls
\* map_generic again without having gone over at least one slot, so what is
\* left shrinks with every invocation; the call goes over at most as many
\* leaf slots as its range has 4 KiB pages, and a call that returns Ok for a
\* non-empty range has gone over at least one slot in every invocation.
C28_Terminates ==
    LastGeneric =>
        /\ last.status \in {"Ok", "Panic"}
        /\ last.visited <= LastN
        /\ (last.status = "Ok" /\ LastN > 0) => last.depth < last.visited

\* C28 witness: a call has returned Ok after five nested invocations, having
\* gone over one slot for every page of its range.
C28_Witness ==
    /\ LastGeneric
    /\ last.status = "Ok"
    /\ last.depth = 5
    /\ last.visited = LastN

(***************************************************************************)
(* C29  Rights are not propagated upward                                   *)
(***************************************************************************)
\* the entry a table pointer is held in
PointerEntry(s, p) ==
    LET e4 == s.pml4[p.slot[1]]
    IN  IF p.level = 4 THEN e4
        ELSE LET e3 == table_at(s, e4.addr)[p.slot[2]]
             IN  IF p.level = 3 THEN e3
                 ELSE table_at(s, e3.addr)[p.slot[3]]

\* C29: in every reachable state every present entry that is not a leaf (a
\* level-4 entry, a level-3 or level-2 entry without PS) has exactly the flags
\* P, RW and US, whatever rights the mappings beneath it were made with; a
\* flag set other than that, or PS, is found in leaf entries only.
C29_NoUpwardRights ==
    /\ \A p \in TablePointers(Cur) :
          PointerEntry(Cur, p) = Entry(p.addr, {"P", "RW", "US"})
    /\ \A i \in present_indices(pml4) : ~is_page(pml4[i])
    /\ \A l \in Leaves(Cur) : l.level > 1 => is_page(l.entry)

\* C29 witness: a ReadKernel mapping of 4 KiB and 2 MiB leaves, none of them
\* writable or open to user mode, lies under level-4, level-3 and level-2
\* table pointers.
C29_Witness ==
    /\ LastGeneric
    /\ last.status = "Ok"
    /\ last.args.rights = "ReadKernel"
    /\ {p.level : p \in TablePointers(Cur)} = {4, 3, 2}
    /\ {l.level : l \in Leaves(Cur)} = {1, 2}
    /\ \A l \in Leaves(Cur) : l.entry.flags \cap {"RW", "US"} = {}

(***************************************************************************)
(* C30  Tables are created lazily and zeroed                               *)
(***************************************************************************)
\* the frames the latest call drew for tables
NewFrames == DOMAIN mem \ DOMAIN pre.mem

\* map_identity(0x0, 0x3000, ReadWriteKernel) on a fresh address space
S1Call ==
    /\ last.op = "map_identity"
    /\ PreFresh
    /\ last.args.pbase = PageAddr(0, 0)
    /\ last.args.end = PageAddr(0, 3)
    /\ last.args.rights = RWK

\* C30: a map call draws a frame only for a slot it descends through that
\* was non-present, and every frame it draws becomes the table under such a
\* slot; a new table holds nothing but what the call installed: each present
\* entry of it is a leaf of the call's range or the pointer to another new
\* table.  Scenario S1, map_identity(0x0, 0x3000) on a fresh address space,
\* draws exactly three frames and leaves exactly three level-1 leaves, at
\* indices 0, 1 and 2.
C30_LazyZeroedTables ==
    /\ Cardinality(NewFrames) = nalloc - pre.nalloc
    /\ LET pointers == TablePointers(Cur)
           installed_leaves == {l.entry : l \in NewLeaves}
       IN  \A f \in NewFrames :
              /\ \E p \in pointers :
                    p.addr = f /\ ~is_present(PointerEntry(PreS, p))
              /\ \A i \in present_indices(mem[f]) :
                    \/ mem[f][i] \in installed_leaves
                    \/ ~is_page(mem[f][i]) /\ mem[f][i].addr \in NewFrames
    /\ (LastGeneric /\ AddPages(LastV, LastN).hi = LastV.hi) =>
          \A l \in NewLeaves : InRange(l)
    /\ S1Call =>
          /\ last.status = "Ok"
          /\ nalloc = 3
          /\ {l.slot : l \in Leaves(Cur)} = {<<0, 0, 0, 0>>, <<0, 0, 0, 1>>, <<0, 0, 0, 2>>}
          /\ \A l \in Leaves(Cur) : l.level = 1

\* C30 witness: the S1 call has returned Ok with three frames drawn.
C30_Witness ==
    /\ S1Call
    /\ last.status = "Ok"
    /\ Cardinality(NewFrames) = 3
    /\ resolve_addr(Cur, PageAddr(0, 2)) = Some(PageAddr(0, 2))
    /\ resolve_addr(Cur, PageAddr(0, 3)) = None

(***************************************************************************)
(* C31  The tables form a tree                                             *)
(***************************************************************************)
\* C31: in every reachable state, whether the latest call returned Ok or
\* panicked, the frames that hold tables are exactly the frames drawn from
\* the provider, each is the target of exactly one table pointer (so no table
\* is reached by two paths and every frame drawn is linked), and every leaf
\* is an entry of a level-3, level-2 or level-1 table, that is at depth 2, 3
\* or 4 from the root.
C31_TableTree ==
    LET pointers == TablePointers(Cur)
    IN  /\ DOMAIN mem = {FrameBase(k) : k \in 0 .. nalloc - 1}
        /\ DOMAIN mem = {p.addr : p \in pointers}
        /\ \A f \in DOMAIN mem : Cardinality({p \in pointers : p.addr = f}) = 1
        /\ \A l \in Leaves(Cur) : 5 - l.level \in {2, 3, 4}

\* C31 witness: two calls have built a tree with two level-3 tables under
\* the root, a level-2 and a level-1 table, holding 1 GiB and 4 KiB leaves.
C31_Witness ==
    /\ ncalls = 2
    /\ last.status = "Ok"
    /\ Cardinality({p \in TablePointers(Cur) : p.level = 4}) = 2
    /\ {p.level : p \in TablePointers(Cur)} = {4, 3, 2}
    /\ {1, 3} \subseteq {l.level : l \in Leaves(Cur)}

(***************************************************************************)
(* C32  Mappings are permanent                                             *)
(***************************************************************************)
\* the addresses whose translation is followed from state to state
PermanenceProbes ==
    Probes \cup
    { PageAddr(0, 0), PageAddr(0, 2), PageAddr(0, 3), PageAddr(0, 6), PageAddr(0, 255),
      PageAddr(0, 256), PageAddr(0, LARGE_PAGE_SIZE), PageAddr(0, LARGE_PAGE_SIZE + 2),
      PageAddr(0, 2 * LARGE_PAGE_SIZE), PageAddr(0, 3 * LARGE_PAGE_SIZE),
      PageAddr(1, 0), PageAddr(1, 1), PageAddr(3, 0),
      PageAddr(PAGE_SIZE_ENTRIES, 0), HigherHalf }

\* C32: if resolve(x) is Some(q) in a state, it is Some(q) in the next state,
\* whichever map_generic, map_frame, map_frames, map_identity,
\* map_identity_with_offset or map call is made and however it ends; so it is
\* Some(q) in every later state.
C32_Permanent ==
    [][\A x \in PermanenceProbes :
          resolve_addr(Cur, x) # None => resolve_addr(CurNext, x) = resolve_addr(Cur, x)]_vars

\* C32 witness: map_identity has returned Ok over a page that was mapped to
\* another frame; the page resolves as before and its neighbour as asked.
C32_Witness ==
    /\ last.op = "map_identity"
    /\ last.status = "Ok"
    /\ resolve_addr(PreS, PageAddr(0, 1)) = Some(PageAddr(0, 5))
    /\ resolve_addr(Cur, PageAddr(0, 1)) = Some(PageAddr(0, 5))
    /\ resolve_addr(PreS, PageAddr(0, 2)) = None
    /\ resolve_addr(Cur, PageAddr(0, 2)) = Some(PageAddr(0, 2))

(***************************************************************************)
(* C33  No effect outside the range                                        *)
(***************************************************************************)
\* the addresses looked at around the latest call: the fixed ones, the last
\* byte before its range and the first byte after it
OutsideProbes ==
    PermanenceProbes \cup {AddBytes(AddPages(LastV, -1), BASE_PAGE_SIZE - 1),
                           AddPages(LastV, LastN)}

\* x lies in [v, v + n) as a 64-bit address
InRange64(x) == ~AddrGT(LastV, x) /\ AddrGT(AddPages(LastV, LastN), x)

\* bits 0..47 of an address
Low48(x) == [x EXCEPT !.hi = 0]

\* bits 0..47 of x lie in the range taken modulo 2^48
InRange48(x) ==
    LET first == Low48(LastV)
        end == AddPages(first, LastN)
    IN  IF end.hi = 0
        THEN ~AddrGT(first, Low48(x)) /\ AddrGT(end, Low48(x))
        ELSE ~AddrGT(first, Low48(x)) \/ AddrGT(Low48(end), Low48(x))

\* C33 as stated: for every map_generic(v, (p, n), rights) call and every
\* address x outside [v, v + n), resolve(x) is the same before and after.
C33_NoEffectOutside ==
    LastGeneric =>
        \A x \in OutsideProbes :
            ~InRange64(x) => resolve_addr(Cur, x) = resolve_addr(PreS, x)

\* C33 amended: for every map_generic(v, (p, n), rights) call, however it
\* ends, and every address x whose bits 0..47 lie outside the range taken
\* modulo 2^48, resolve(x) is the same before and after; a zero-length call
\* changes resolve for no address.
C33_NoEffectOutside48 ==
    LastGeneric =>
        \A x \in OutsideProbes :
            (LastN = 0 \/ ~InRange48(x)) => resolve_addr(Cur, x) = resolve_addr(PreS, x)

\* C33 witness: a call has returned Ok having mapped the last page of its
\* range, with the byte before the range and the byte after it as they were,
\* unmapped.
C33_Witness ==
    /\ LastGeneric
    /\ last.status = "Ok"
    /\ LastN > 1
    /\ resolve_addr(PreS, AddPages(LastV, LastN - 1)) = None
    /\ resolve_addr(Cur, AddPages(LastV, LastN - 1)) = Some(AddPages(LastP, LastN - 1))
    /\ resolve_addr(Cur, AddPages(LastV, LastN)) = None
    /\ resolve_addr(Cur, AddBytes(AddPages(LastV, -1), BASE_PAGE_SIZE - 1)) = None

(***************************************************************************)
(* C34  Order independence for disjoint ranges                             *)
(***************************************************************************)
\* map_generic calls over ranges that lie apart, next to one another in one
\* table, in different tables, 2^48 apart, or on one another
OrderRequests ==
    { Req(PageAddr(0, 1), PageAddr(0, 1), Size(1, 0), RWK),
      Req(PageAddr(0, 2), PageAddr(0, 12), Size(2, 0), "ReadUser"),
      Req(PageAddr(0, 1), PageAddr(0, 5), Size(2, 0), "ReadUser"),
      Req(PageAddr(0, LARGE_PAGE_SIZE), PageAddr(0, 3 * LARGE_PAGE_SIZE),
          Size(LARGE_PAGE_SIZE, 0), RWK),
      Req(PageAddr(0, 2 * LARGE_PAGE_SIZE - 1), PageAddr(0, 20), Size(2, 0), RWK),
      Req(PageAddr(0, 2 * LARGE_PAGE_SIZE), PageAddr(0, 3), Size(LARGE_PAGE_SIZE, 0), RWK),
      Req(PageAddr(1, 0), PageAddr(1, 0), Size(HUGE_PAGE_SIZE, 0), "ReadWriteExecuteKernel"),
      Req(PageAddr(2, 7), PageAddr(0, 7), Size(1, 0), RWK),
      Req(PageAddr(3, 0), PageAddr(0, 0), Size(0, 0), RWK),
      Req(Addr(1, 0, 1, 0), PageAddr(0, 9), Size(1, 0), RWK),
      Req(HigherHalf, PageAddr(0, 0), Size(1, 0), RWK) }

NextOrder == \E q \in OrderRequests : MapGeneric(q)

SpecOrder == Init /\ [][NextOrder]_vars

LastReq == Req(LastV, LastP, last.args.psize, last.args.rights)

\* the address space after the latest call, with the way the call ended
CurEnded == [Cur EXCEPT !.status = last.status]

\* the call q made on the address space s; nothing runs after a panic
Then(s, q) ==
    IF s.status # "Ok" THEN s
    ELSE map_generic([s EXCEPT !.depth = 0, !.visited = 0],
                     q.vbase, q.pbase, q.psize, q.rights)

\* the first address after the range of q
ReqEnd(q) == AddPages(q.vbase, q.psize.pg)

\* a and b have non-empty ranges that share no 64-bit address
Disjoint64(a, b) ==
    /\ a.psize.pg > 0
    /\ b.psize.pg > 0
    /\ ~AddrGT(ReqEnd(a), b.vbase) \/ ~AddrGT(ReqEnd(b), a.vbase)

\* the two address spaces ended the same way and, when that is Ok, have the
\* same leaves of the same sizes at the same places, mapping to the same
\* addresses with the same flags
SameOutcome(s, t) ==
    /\ (s.status = "Ok") = (t.status = "Ok")
    /\ s.status = "Ok" => Leaves(s) = Leaves(t)

\* C34: for two map_generic requests with non-empty, non-overlapping ranges,
\* applied in either order to the same address space, both orders succeed or
\* both panic, and when they succeed the leaves, their sizes and what they
\* resolve to are the same.
C34_OrderIndependent ==
    LastGeneric =>
        \A b \in OrderRequests :
            Disjoint64(LastReq, b) =>
                SameOutcome(Then(CurEnded, b), Then(Then(PreS, b), LastReq))

\* a and b have non-empty ranges that share no address modulo 2^48
Disjoint48(a, b) ==
    LET a0 == Low48(a.vbase)
        b0 == Low48(b.vbase)
    IN  /\ a.psize.pg > 0
        /\ b.psize.pg > 0
        /\ AddPages(a0, a.psize.pg).hi = 0
        /\ AddPages(b0, b.psize.pg).hi = 0
        /\ ~AddrGT(AddPages(a0, a.psize.pg), b0) \/ ~AddrGT(AddPages(b0, b.psize.pg), a0)

\* C34 for ranges that share no address modulo 2^48: both orders end alike,
\* with the same leaves.
C34_OrderIndependent48 ==
    LastGeneric =>
        \A b \in OrderRequests :
            Disjoint48(LastReq, b) =>
                SameOutcome(Then(CurEnded, b), Then(Then(PreS, b), LastReq))

(***************************************************************************)
(* C35  Addresses with a bit at position 48 or above                       *)
(***************************************************************************)
\* 1 GiB- and 2 MiB-aligned bases in the higher half, 2^48 above the lower
\* half, at the last 2 MiB of the 64-bit address space, and in the lower half
HighBases ==
    { HigherHalf,
      Addr(HI_RANGE - 1, GB_SLOTS \div 2 + 1, LARGE_PAGE_SIZE, 0),
      Addr(1, 0, 0, 0),
      Addr(HI_RANGE - 1, GB_SLOTS - 1, HUGE_PAGE_SIZE - LARGE_PAGE_SIZE, 0),
      PageAddr(0, 0),
      PageAddr(1, 0) }

HighSizes == { 1, LARGE_PAGE_SIZE, 2 * LARGE_PAGE_SIZE, HUGE_PAGE_SIZE }

MapHigh ==
    \E base \in HighBases, size \in HighSizes :
        MapGeneric(Req(base, PageAddr(2, 0), Size(size, 0), RWK))

NextHigh == MapHigh

SpecHigh == Init /\ [][NextHigh]_vars

\* the range of the latest call runs past the end of the 64-bit address space
RunsPast64 ==
    /\ AddrGT(LastV, AddPages(LastV, LastN))
    /\ AddPages(LastV, LastN) # Addr(0, 0, 0, 0)

\* C35 as stated: a map_generic call whose vbase has a bit at position 48 or
\* above set installs only 4 KiB leaves, whatever the alignment and the size.
C35_HighOnly4K ==
    (LastGeneric /\ LastV.hi # 0) => \A l \in NewLeaves : l.level = 1

\* C35 amended: a map_generic call whose vbase has a bit at position 48 or
\* above set and whose range does not run past 2^64 installs only 4 KiB
\* leaves, whatever the alignment and the size.
C35_HighOnly4KBelow64 ==
    (LastGeneric /\ LastV.hi # 0 /\ ~RunsPast64) => \A l \in NewLeaves : l.level = 1

\* C35 witness: a call at a 1 GiB-aligned higher-half address with a 1 GiB-
\* aligned pbase and 4 MiB to map has returned Ok, having installed 1024
\* leaves of 4 KiB.
C35_Witness ==
    /\ LastGeneric
    /\ last.status = "Ok"
    /\ LastV = HigherHalf
    /\ LastN = 2 * LARGE_PAGE_SIZE
    /\ huge_page_offset(LastP) = Size(0, 0)
    /\ Cardinality({l \in NewLeaves : l.level = 1}) = 2 * LARGE_PAGE_SIZE

(***************************************************************************)
(* C36  Virtual and physical cursor advance together                       *)
(***************************************************************************)
\* offset of a leaf from the base of the latest call, in pages, taken
\* modulo 2^48
Offset48(l) ==
    LET v == slot_vaddr(0, l.slot[1], l.slot[2], l.slot[3], l.slot[4])
    IN  ((v.gb - LastV.gb) % GB_SLOTS) * HUGE_PAGE_SIZE + (v.pg - LastV.pg)

\* the flags of a leaf beside present and page-size
LeafRights(l) == l.entry.flags \ {"P", "PS"}

\* C36: every leaf a map_generic(v, (p, n), rights) call installs, however the
\* call ends, lies at an offset k from v and maps to p + k with the requested
\* rights, also behind slots that were present and skipped and in the tables
\* the call continues into.
C36_CursorsTogether ==
    LastGeneric =>
        LET installed_leaves == NewLeaves
        IN  \A l \in installed_leaves :
                /\ l.entry.addr = AddPages(LastP, Offset48(l))
                /\ LeafRights(l) = to_rights(last.args.rights)

\* C36 witness: a call has returned Ok whose first page was mapped before, to
\* another address, and was skipped, and which continued into a second
\* level-1 table; its last page, unmapped before, resolves to p + n - 4 KiB.
C36_Witness ==
    /\ LastGeneric
    /\ last.status = "Ok"
    /\ last.depth >= 1
    /\ leaf_pages(PreS, LastV) = 1
    /\ resolve_addr(Cur, LastV) # Some(LastP)
    /\ resolve_addr(PreS, AddPages(LastV, LastN - 1)) = None
    /\ resolve_addr(Cur, AddPages(LastV, LastN - 1)) = Some(AddPages(LastP, LastN - 1))

(***************************************************************************)
(* C37  No rollback on a panic part-way                                    *)
(***************************************************************************)
\* the address space is created when the provider has all its frames, or
\* has FramesLeft or one more than FramesLeft of them left
InitLazy ==
    /\ \E left \in {MaxFrames, FramesLeft + 1, FramesLeft} : NewVSpaceWith(MaxFrames - left)
    /\ gs_base = 1
    /\ kernel_gs_base = 1
    /\ installed = 1

SpecLazy == InitLazy /\ [][NextConflict]_vars

\* the tables that were missing on the way to the base of the latest call
PathMissing ==
    IF ~is_present(pre.pml4[pml4_index(LastV)]) THEN 3
    ELSE IF ~is_present(PrePdpt[pdpt_index(LastV)]) THEN 2
    ELSE IF ~is_present(PrePd[pd_index(LastV)]) THEN 1
    ELSE 0

\* the latest call is a valid non-empty map_generic call that has panicked,
\* although its first page was unmapped and the provider had the frames for
\* the tables on the way to it: the panic came part-way through the range
PanicPartWay ==
    /\ LastGeneric
    /\ LastArgsValid
    /\ LastN > 0
    /\ last.status = "Panic"
    /\ leaf_pages(PreS, LastV) = 0
    /\ pre.nalloc + PathMissing <= MaxFrames

\* C37: when a map_generic call panics part-way through its range, on a
\* conflict or on provider exhaustion, what it did before stands: the first
\* page of the range is mapped to pbase, every frame the call drew is still
\* drawn and is installed as a table, and every entry that was present before
\* the call is still what it was.
C37_NoRollback ==
    PanicPartWay =>
        /\ resolve_addr(Cur, LastV) = Some(LastP)
        /\ nalloc >= pre.nalloc
        /\ Cardinality(DOMAIN mem) = Cardinality(DOMAIN pre.mem) + (nalloc - pre.nalloc)
        /\ Cardinality(TablePointers(Cur))
             = Cardinality(TablePointers(PreS)) + (nalloc - pre.nalloc)
        /\ entries_kept(PreS, Cur)

\* C37 witness: a call on the 2 MiB path has panicked on the second slot of
\* its run, which an earlier call had filled; the 2 MiB leaf it wrote into the
\* first slot and the frame it drew for a table are still there.
C37_Witness ==
    /\ PanicPartWay
    /\ leaf_pages(Cur, LastV) = LARGE_PAGE_SIZE
    /\ resolve_addr(PreS, AddPages(LastV, LARGE_PAGE_SIZE)) # None
    /\ LastN >= 2 * LARGE_PAGE_SIZE

\* a call has panicked for want of a frame after mapping its first page
C37_ExhaustedPartWay ==
    /\ PanicPartWay
    /\ nalloc = MaxFrames
    /\ nalloc > pre.nalloc
    /\ leaf_pages(Cur, LastV) = 1

(***************************************************************************)
(* C38  allocate_pages_aligned                                             *)
(***************************************************************************)
\* the kernel maps physical memory at a fixed offset, a whole number of GiB
KernelOffsetGiB == 64

\* kernel_vaddr_to_paddr: the fixed offset taken off
kernel_vaddr_to_paddr(v) == Addr(0, (v.gb - KernelOffsetGiB) % GB_SLOTS, v.pg, v.off)

\* the null pointer
NullRegion == Addr(0, 0, 0, 0)

\* VSpace::allocate_pages(how_many, typ): new_region is what alloc_zeroed
\* returned for a layout of alignment 4096, null when it has no memory
allocate_pages(how_many, new_region) ==
    IF new_region = NullRegion THEN [failed |-> "null", paddr |-> Addr(0, 0, 0, 0)]
    ELSE [failed |-> "none", paddr |-> kernel_vaddr_to_paddr(new_region)]

\* u64::is_power_of_two, for values below 2^31
is_power_of_two(x) == \E k \in 0 .. 30 : x = 2^k

\* the whole of VSpace::allocate_pages_aligned(how_many, typ, align_to):
\* align_to in bytes, new_region the answer of the allocator
allocate_pages_aligned_region(how_many, align_to, new_region) ==
    LET pages == align_to \div BASE_PAGE_SIZE
        actual_how_many == how_many + pages
        region == allocate_pages(actual_how_many, new_region)
        paddr == region.paddr
        end == AddPages(paddr, actual_how_many)
        aligned_paddr == allocate_pages_aligned(paddr, pages)
        aligned_end == AddPages(aligned_paddr, how_many)
        unaligned_unused_pages_bottom == SubAddr(aligned_paddr, paddr).pg
        unaligned_unused_pages_top == SubAddr(end, aligned_end).pg
        failed ==
            IF ~is_power_of_two(align_to) THEN "Alignment needs to be pow2"
            ELSE IF align_to < BASE_PAGE_SIZE THEN "Alignment needs to be at least page-size"
            ELSE IF region.failed # "none" THEN region.failed
            ELSE IF ~is_multiple_of(aligned_paddr, pages) THEN "Not aligned properly"
            ELSE IF AddrGT(paddr, aligned_paddr) \/ AddrGT(aligned_end, end)
                 THEN "Don't loose any pages"
            ELSE IF unaligned_unused_pages_bottom + unaligned_unused_pages_top
                      # actual_how_many - how_many
                 THEN "Don't loose any pages"
            ELSE "none"
    IN  IF failed # "none"
        THEN [failed |-> failed, paddr |-> Addr(0, 0, 0, 0), region |-> paddr,
              allocated |-> 0, bottom |-> 0, top |-> 0, freed |-> 0]
        ELSE [failed |-> "none", paddr |-> aligned_paddr, region |-> paddr,
              allocated |-> actual_how_many,
              bottom |-> unaligned_unused_pages_bottom,
              top |-> unaligned_unused_pages_top,
              freed |-> 0]

\* pages asked for, alignments in bytes, and answers of the allocator (kernel
\* addresses of alignment 4096, or null)
HowMany == { 0, 1, 3, LARGE_PAGE_SIZE, LARGE_PAGE_SIZE + 1 }

AlignTos ==
    { 2048, 4096, 8192, 12288, LARGE_PAGE_SIZE * BASE_PAGE_SIZE,
      HUGE_PAGE_SIZE * BASE_PAGE_SIZE }

NewRegions ==
    { NullRegion,
      Addr(HI_RANGE - 1, KernelOffsetGiB, 768, 0),
      Addr(HI_RANGE - 1, KernelOffsetGiB, LARGE_PAGE_SIZE + 1, 0),
      Addr(HI_RANGE - 1, KernelOffsetGiB, LARGE_PAGE_SIZE, 0),
      Addr(HI_RANGE - 1, KernelOffsetGiB + 1, 0, 0),
      Addr(HI_RANGE - 1, KernelOffsetGiB + 2, HUGE_PAGE_SIZE - 1, 0) }

AllocatePagesAligned(how_many, align_to, new_region) ==
    LET r == allocate_pages_aligned_region(how_many, align_to, new_region)
    IN  /\ Running
        /\ last' = [op |-> "allocate_pages_aligned",
                    args |-> [how_many |-> how_many, align_to |-> align_to,
                              new_region |-> new_region],
                    status |-> IF r.failed = "none" THEN "Ok" ELSE "Panic",
                    result |-> r, depth |-> 0, visited |-> 0]
        /\ UNCHANGED <<pml4, mem, nalloc, pre, ncalls, gs_base, kernel_gs_base, installed>>

NextAlign ==
    \E how_many \in HowMany, align_to \in AlignTos, new_region \in NewRegions :
        AllocatePagesAligned(how_many, align_to, new_region)

SpecAlign == Init /\ [][NextAlign]_vars

LastAligned == last.op = "allocate_pages_aligned"

====
